---------------------------- MODULE Spec2Model ----------------------------
(***************************************************************************)
(* A model of fastparse (the fp_* scanner of src/errorhandler.h): a cursor *)
(* over a byte buffer, its whitespace skipper (16-byte lanes and scalar),  *)
(* the integer / double / quoted-string parsers, the CSV row parser, the   *)
(* JSON structural skipper and the chain combinator; and of the timer of   *)
(* src/unnamed/part_001 (timer_init, timer_start, timer_stop over          *)
(* get_timestamp_ns).                                                      *)
(*                                                                         *)
(* Bytes are one-character strings; NUL is the byte '\0'.  Memory is the   *)
(* byte sequence `mem` followed by one NUL terminator (a C string); the    *)
(* scanner is given the first p.end bytes of it, so the memory may go on   *)
(* after the scanner's end.  Pointers are offsets from `input`.            *)
(***************************************************************************)
EXTENDS Integers, Sequences, FiniteSets, TLC

VARIABLES
    mem,          \* the bytes at input[0 ..], followed by a NUL terminator
    simd,         \* build flag FASTPARSE_SIMD_ENABLED
    p,            \* the fp_parser_t
    before,       \* the fp_parser_t as it was when the last operation began
    op,           \* the last operation called
    arg,          \* its argument (a byte, a literal), or <<>>
    ret,          \* its bool return value
    count,        \* the last size_t returned by fp_parse_csv_line
    int_out,      \* the int64_t the last call wrote to *result, <<>> if none
    dbl_out,      \* <<the double the last call wrote to *result>>, <<>> if none
    str_out,      \* <<the view the last call wrote to *result>>, <<>> if none
    fields,       \* the fields[] entries the last call wrote: index -> view
    chain,        \* the fp_chain_t value the caller holds
    chain_before, \* the chain value passed to the last chain step
    aborted,      \* the process was killed (a trapping build)
    sample,       \* what the caller built the buffer from (kind "none": nothing)
    rows,         \* fp_parse_csv_line calls made with input left: rows read
    stack,        \* the calls in progress, innermost first (<<>>: none)
    steps,        \* loop turns, calls and returns made by the call in progress
    timer,        \* the timer_t
    timer_before, \* the timer_t as it was when the last timer call began
    timer_op,     \* the last timer call
    clock         \* the build's monotonic clock: [win32, now]

timing == <<timer, timer_before, timer_op, clock>>

vars == <<mem, simd, p, before, op, arg, ret, count, int_out, dbl_out,
          str_out, fields, chain, chain_before, aborted, sample, rows,
          stack, steps, timing>>

----------------------------------------------------------------------------
(* Bytes and memory *)

NUL == "NUL"
NULL == -1

FP_OK == 0
FP_ERROR_EOF == 1
FP_ERROR_INVALID_NUMBER == 2
FP_ERROR_OVERFLOW == 3
FP_ERROR_INVALID_ESCAPE == 4
FP_ERROR_UNTERMINATED_STRING == 5
FP_ERROR_CUSTOM == 6

Digits == {"0", "1", "2", "3", "4", "5", "6", "7", "8", "9"}

\* A variant of isdigit that takes the NUL that fp_peek gives at the end
\* for a digit.
isdigit_or_nul(c) == c \in Digits \cup {NUL}

isdigit(c) == c \in Digits

DigitVal(c) ==
    CASE c = "0" -> 0 [] c = "1" -> 1 [] c = "2" -> 2 [] c = "3" -> 3
      [] c = "4" -> 4 [] c = "5" -> 5 [] c = "6" -> 6 [] c = "7" -> 7
      [] c = "8" -> 8 [] c = "9" -> 9

\* *(input + i): the bytes of mem, then the terminator.
MemAt(i) == IF i < Len(mem) THEN mem[i + 1] ELSE NUL

\* The bytes input[a .. b).
MemRange(a, b) == [k \in 1..(b - a) |-> MemAt(a + k - 1)]

\* A variant of the view constructor that leaves data null.
fp_view_t_null(data, len) == [data |-> NULL, len |-> len]

fp_view_t(data, len) == [data |-> data, len |-> len]

FP_VIEW_EMPTY == fp_view_t(NULL, 0)

\* The bytes a view over the scanner's memory spans.
ViewBytes(v) == IF v.len = 0 THEN <<>> ELSE MemRange(v.data, v.data + v.len)

----------------------------------------------------------------------------
(* Whitespace skipping: 16-byte lanes, then the scalar loop *)

LaneWidth == 16

IsWs(c) == c = " " \/ c = "\t" \/ c = "\n" \/ c = "\r"

\* The scalar loop: [pos |-> where it stops, reads |-> the offsets it read].
RECURSIVE ScalarLoop(_, _, _)
ScalarLoop(q, end, reads) ==
    IF q < end
    THEN IF IsWs(MemAt(q))
         THEN ScalarLoop(q + 1, end, reads \cup {q})
         ELSE [pos |-> q, reads |-> reads \cup {q}]
    ELSE [pos |-> q, reads |-> reads]

\* A variant of the lane test: mask != 0, some byte of the lane is whitespace.
LaneAnyWs(q) == \E k \in 0..(LaneWidth - 1) : IsWs(MemAt(q + k))

\* _mm_movemask_epi8(whitespace) == 0xFFFF for the lane loaded at q.
LaneAllWs(q) == \A k \in 0..(LaneWidth - 1) : IsWs(MemAt(q + k))

RECURSIVE SimdLoop(_, _, _)
SimdLoop(q, end, reads) ==
    IF q + LaneWidth <= end
    THEN LET loaded == reads \cup (q..(q + LaneWidth - 1))
         IN  IF LaneAllWs(q)
             THEN SimdLoop(q + LaneWidth, end, loaded)
             ELSE [pos |-> q, reads |-> loaded]
    ELSE [pos |-> q, reads |-> reads]

fp_skip_whitespace_simd(str, end) ==
    LET lanes == SimdLoop(str, end, {})
    IN  ScalarLoop(lanes.pos, end, lanes.reads)

fp_skip_whitespace_scalar(str, end) == ScalarLoop(str, end, {})

fp_skip_whitespace(str, end) ==
    IF simd THEN fp_skip_whitespace_simd(str, end)
            ELSE fp_skip_whitespace_scalar(str, end)

----------------------------------------------------------------------------
(* Scanner primitives: every operator takes the fp_parser_t and returns   *)
(* the fp_parser_t it leaves (with the return value where there is one).  *)

fp_init(len) ==
    [start |-> 0, current |-> 0, end |-> len, line |-> 1, column |-> 1,
     error_code |-> FP_OK, error_msg |-> ""]

fp_at_end(q) == q.current >= q.end

fp_peek(q) == IF fp_at_end(q) THEN NUL ELSE MemAt(q.current)

\* A variant of the bookkeeping that counts every byte as a column.
StepColumnOnly(q) == [q EXCEPT !.current = @ + 1, !.column = @ + 1]

\* One byte consumed, with the line/column bookkeeping of fp_advance.
Step(q) ==
    IF MemAt(q.current) = "\n"
    THEN [q EXCEPT !.current = @ + 1, !.line = @ + 1, !.column = 1]
    ELSE [q EXCEPT !.current = @ + 1, !.column = @ + 1]

fp_advance(q) == IF fp_at_end(q) THEN q ELSE Step(q)

\* A variant of fp_set_error that also rewinds the cursor to start.
fp_set_error_rewinding(q, code, msg) ==
    [q EXCEPT !.error_code = code, !.error_msg = msg, !.current = q.start]

fp_set_error(q, code, msg) == [q EXCEPT !.error_code = code, !.error_msg = msg]

fp_has_error(q) == q.error_code # FP_OK

RECURSIVE TrackTo(_, _)
TrackTo(q, new_pos) ==
    IF q.current < new_pos THEN TrackTo(Step(q), new_pos) ELSE q

fp_skip_ws(q) == TrackTo(q, fp_skip_whitespace(q.current, q.end).pos)

\* A variant of fp_match_char that consumes the byte also when it differs.
fp_match_char_consuming(q, expected) ==
    [p |-> fp_advance(q), ok |-> fp_peek(q) = expected]

\* A variant of fp_match_char that clears the error slot when it matches.
fp_match_char_clearing(q, expected) ==
    IF fp_peek(q) = expected
    THEN [p |-> fp_set_error(fp_advance(q), FP_OK, ""), ok |-> TRUE]
    ELSE [p |-> q, ok |-> FALSE]

fp_match_char(q, expected) ==
    IF fp_peek(q) = expected
    THEN [p |-> fp_advance(q), ok |-> TRUE]
    ELSE [p |-> q, ok |-> FALSE]

----------------------------------------------------------------------------
(* 64-bit arithmetic.  A uint64_t / size_t / int64_t is its bit pattern:   *)
(* four 16-bit limbs, least significant first; int64_t is two's complement.*)

LimbBase == 65536

U64(n) == <<n % LimbBase, n \div LimbBase, 0, 0>>

U64Zero == U64(0)

U64_INT64_MAX == <<65535, 65535, 65535, 32767>>

\* (uint64_t)INT64_MAX + 1, which is also the bit pattern of INT64_MIN.
U64_INT64_MAX_PLUS_1 == <<0, 0, 0, 32768>>

\* v * m + a as the full product: the four limbs and the carry out of them.
U64MulAddWide(v, m, a) ==
    LET t1 == v[1] * m + a
        t2 == v[2] * m + (t1 \div LimbBase)
        t3 == v[3] * m + (t2 \div LimbBase)
        t4 == v[4] * m + (t3 \div LimbBase)
    IN  [low |-> <<t1 % LimbBase, t2 % LimbBase, t3 % LimbBase, t4 % LimbBase>>,
         carry |-> t4 \div LimbBase]

\* v * m + a in uint64_t (modulo 2^64).
U64MulAdd(v, m, a) == U64MulAddWide(v, m, a).low

\* a - b in uint64_t (modulo 2^64).
U64Sub(a, b) ==
    LET d1 == a[1] - b[1]
        d2 == a[2] - b[2] - (IF d1 < 0 THEN 1 ELSE 0)
        d3 == a[3] - b[3] - (IF d2 < 0 THEN 1 ELSE 0)
        d4 == a[4] - b[4] - (IF d3 < 0 THEN 1 ELSE 0)
    IN  <<d1 % LimbBase, d2 % LimbBase, d3 % LimbBase, d4 % LimbBase>>

\* v / d and v % d in uint64_t, for a small divisor d.
U64DivMod(v, d) ==
    LET n4 == v[4]
        n3 == (n4 % d) * LimbBase + v[3]
        n2 == (n3 % d) * LimbBase + v[2]
        n1 == (n2 % d) * LimbBase + v[1]
    IN  [quot |-> <<n1 \div d, n2 \div d, n3 \div d, n4 \div d>>, rem |-> n1 % d]

U64Div(v, d) == U64DivMod(v, d).quot

U64Gt(a, b) ==
    \/ a[4] > b[4]
    \/ a[4] = b[4] /\ a[3] > b[3]
    \/ a[4] = b[4] /\ a[3] = b[3] /\ a[2] > b[2]
    \/ a[4] = b[4] /\ a[3] = b[3] /\ a[2] = b[2] /\ a[1] > b[1]

U64Ge(a, b) == a = b \/ U64Gt(a, b)

\* The sign bit of an int64_t.
Int64IsNegative(v) == v[4] >= 32768

\* (size_t)(p->end - p->current): the pointer difference converted to size_t.
fp_remaining(q) == U64Sub(U64(q.end), U64(q.current))

\* memcmp(p->current, expected, n) == 0.  Bytes past the terminator are
\* outside the object: if the bytes inside already differ the result is
\* nonzero, otherwise it is whatever lies there (oob).
MemEquals(at, expected, oob) ==
    LET inside == {k \in 1..Len(expected) : at + k - 1 <= Len(mem)}
    IN  /\ \A k \in inside : MemAt(at + k - 1) = expected[k]
        /\ (inside # 1..Len(expected) => oob)

fp_match_str(q, expected, oob) ==
    IF /\ U64Ge(fp_remaining(q), U64(Len(expected)))
       /\ MemEquals(q.current, expected, oob)
    THEN [p |-> [q EXCEPT !.current = @ + Len(expected),
                          !.column = @ + Len(expected)],
          ok |-> TRUE]
    ELSE [p |-> q, ok |-> FALSE]

----------------------------------------------------------------------------
(* String view operations.  A view's len is a size_t: the views the        *)
(* scanner makes span bytes of the buffer and carry len as a number, the   *)
(* result of fp_view_substr carries it as the size_t itself (limbs), since *)
(* it need not fit the buffer.                                             *)

Min(S) == CHOOSE x \in S : \A y \in S : x <= y

\* a + b in size_t (modulo 2^64).
U64Add(a, b) ==
    LET s1 == a[1] + b[1]
        s2 == a[2] + b[2] + (s1 \div LimbBase)
        s3 == a[3] + b[3] + (s2 \div LimbBase)
        s4 == a[4] + b[4] + (s3 \div LimbBase)
    IN  <<s1 % LimbBase, s2 % LimbBase, s3 % LimbBase, s4 % LimbBase>>

\* The number a size_t below 2^32 stands for.
U64Small(v) == v[1] + v[2] * LimbBase

fp_view_substr(view, start, len) ==
    IF U64Ge(start, U64(view.len))
    THEN [data |-> NULL, len |-> U64Zero]
    ELSE [data |-> view.data + U64Small(start),
          len |-> IF U64Gt(U64Add(start, len), U64(view.len))
                  THEN U64Sub(U64(view.len), start) ELSE len]

\* The unsigned char value of a byte of the views' alphabet.
ByteCode(c) == IF c = "a" THEN 97 ELSE IF c = "b" THEN 98 ELSE 0

\* memcmp(x, y, n): zero, or a number whose sign is that of the first
\* differing pair of bytes; its size (mag) is the library's choice.
memcmp(x, y, n, mag) ==
    LET differ == {k \in 0..(n - 1) : MemAt(x + k) # MemAt(y + k)}
        sign(k) == IF ByteCode(MemAt(x + k)) < ByteCode(MemAt(y + k))
                   THEN 0 - mag ELSE mag
    IN  IF differ = {} THEN 0 ELSE sign(Min(differ))

fp_view_equals(a, b) == a.len = b.len /\ memcmp(a.data, b.data, a.len, 1) = 0

\* A variant of fp_view_compare that does not look at the lengths.
fp_view_compare_prefix_only(a, b, mag) ==
    memcmp(a.data, b.data, IF a.len < b.len THEN a.len ELSE b.len, mag)

fp_view_compare(a, b, mag) ==
    LET decide(result) ==
            IF result = 0
            THEN (IF a.len < b.len THEN 0 - 1 ELSE IF a.len > b.len THEN 1 ELSE 0)
            ELSE result
    IN  decide(memcmp(a.data, b.data, IF a.len < b.len THEN a.len ELSE b.len, mag))

----------------------------------------------------------------------------
(* fp_parse_int64 *)

\* A variant of the overflow check that leaves the digit out.
OverflowCheckWithoutDigit(value, max_val, digit) ==
    U64Gt(value, U64Div(max_val, 10))

\* The overflow check of the digit loop: value > (max_val - digit) / 10.
OverflowCheck(value, max_val, digit) ==
    U64Gt(value, U64Div(U64Sub(max_val, U64(digit)), 10))

\* The digit loop: [p, value, overflow].
RECURSIVE DigitLoop(_, _, _)
DigitLoop(q, value, max_val) ==
    IF ~fp_at_end(q) /\ isdigit(fp_peek(q))
    THEN LET digit == DigitVal(fp_peek(q))
         IN  IF OverflowCheck(value, max_val, digit)
             THEN [p |-> q, value |-> value, overflow |-> TRUE]
             ELSE DigitLoop(fp_advance(q), U64MulAdd(value, 10, digit), max_val)
    ELSE [p |-> q, value |-> value, overflow |-> FALSE]

\* [p, ok, value, negate_overflows].  value is the int64_t written to *result
\* when ok; negate_overflows says that -(int64_t)value negates INT64_MIN, a
\* signed overflow (undefined behaviour): value then holds the wrapped result.
fp_parse_int64(q0) ==
    LET fail(q, code, msg) ==
            [p |-> fp_set_error(q, code, msg), ok |-> FALSE, value |-> <<>>,
             negate_overflows |-> FALSE]
        finish(loop, negative) ==
            IF loop.overflow
            THEN fail(loop.p, FP_ERROR_OVERFLOW, "Integer overflow")
            ELSE [p |-> loop.p, ok |-> TRUE,
                  value |-> IF negative THEN U64Sub(U64Zero, loop.value)
                                        ELSE loop.value,
                  negate_overflows |->
                      negative /\ loop.value = U64_INT64_MAX_PLUS_1]
        digits(q2, negative) ==
            IF ~isdigit(fp_peek(q2))
            THEN fail(q2, FP_ERROR_INVALID_NUMBER, "Expected digit")
            ELSE finish(DigitLoop(q2, U64Zero,
                                  IF negative THEN U64_INT64_MAX_PLUS_1
                                              ELSE U64_INT64_MAX),
                        negative)
        sign(q1) ==
            IF fp_at_end(q1) THEN fail(q1, FP_ERROR_EOF, "Expected number")
            ELSE digits(IF fp_peek(q1) = "-" \/ fp_peek(q1) = "+"
                        THEN fp_advance(q1) ELSE q1,
                        fp_peek(q1) = "-")
    IN  sign(fp_skip_ws(q0))

----------------------------------------------------------------------------
(* strtod, as fp_parse_double uses it: it is handed p->current only, never *)
(* p->end, and reads on until the numeral stops or the terminator comes.   *)
(* Only the end pointer is modelled; the double is the numeral it read.    *)
(* (The optional "(n-char-sequence)" after "nan" is left out.)             *)

VT == "VT"

isspace(c) == c = " " \/ c = "\t" \/ c = "\n" \/ c = VT \/ c = "\f" \/ c = "\r"

isxdigit(c) ==
    isdigit(c) \/ c \in {"a", "b", "c", "d", "e", "f", "A", "B", "C", "D", "E", "F"}

RECURSIVE SkipSpace(_)
SkipSpace(i) == IF isspace(MemAt(i)) THEN SkipSpace(i + 1) ELSE i

RECURSIVE DigitRun(_)
DigitRun(i) == IF isdigit(MemAt(i)) THEN DigitRun(i + 1) ELSE i

RECURSIVE HexRun(_)
HexRun(i) == IF isxdigit(MemAt(i)) THEN HexRun(i + 1) ELSE i

\* The bytes at i are the letters of a word, in either case.
IsWordAt(i, lower, upper) ==
    \A k \in 1..Len(lower) : MemAt(i + k - 1) \in {lower[k], upper[k]}

\* An exponent part at i introduced by one of `marks` ("e"/"E" or "p"/"P"):
\* the offset after it, or i when there is none.
ExponentEnd(i, marks) ==
    LET digits(j, k) == IF k > j THEN k ELSE i
        from(j) == digits(j, DigitRun(j))
    IN  IF MemAt(i) \in marks
        THEN from(IF MemAt(i + 1) \in {"+", "-"} THEN i + 2 ELSE i + 1)
        ELSE i

\* A mantissa at i, digits with an optional "." among them, where a is the
\* end of the digits before the "." and b the end of those after it: the
\* offset after the mantissa, or i when it holds no digit at all.
MantissaEnd(i, a, b) ==
    IF MemAt(a) = "."
    THEN IF (a - i) + (b - (a + 1)) = 0 THEN i ELSE b
    ELSE a

DecimalEnd(i) ==
    LET ends(a) == MantissaEnd(i, a, DigitRun(a + 1))
    IN  ends(DigitRun(i))

HexEnd(i) ==
    LET ends(a) == MantissaEnd(i, a, HexRun(a + 1))
    IN  ends(HexRun(i))

\* end_ptr - start of strtod(start, &end_ptr): the number of bytes converted,
\* 0 when no conversion could be performed.
strtod(start) ==
    LET number(i, hexm, decm) ==
            IF IsWordAt(i, <<"i", "n", "f">>, <<"I", "N", "F">>)
            THEN IF IsWordAt(i + 3, <<"i", "n", "i", "t", "y">>,
                                    <<"I", "N", "I", "T", "Y">>)
                 THEN i + 8 ELSE i + 3
            ELSE IF IsWordAt(i, <<"n", "a", "n">>, <<"N", "A", "N">>)
            THEN i + 3
            ELSE IF hexm > i + 2 THEN ExponentEnd(hexm, {"p", "P"})
            ELSE IF decm > i THEN ExponentEnd(decm, {"e", "E"})
            ELSE start
        signed(i) ==
            number(i,
                   IF MemAt(i) = "0" /\ MemAt(i + 1) \in {"x", "X"}
                   THEN HexEnd(i + 2) ELSE i + 2,
                   DecimalEnd(i))
        spaced(s) == signed(IF MemAt(s) \in {"+", "-"} THEN s + 1 ELSE s)
    IN  spaced(SkipSpace(start)) - start

\* [p, ok, text]: text is the numeral converted; *result is written on both
\* paths (with 0.0, the empty numeral, when nothing was converted).
fp_parse_double(q0) ==
    LET convert(q1, consumed) ==
            IF consumed = 0
            THEN [p |-> fp_set_error(q1, FP_ERROR_INVALID_NUMBER, "Expected number"),
                  ok |-> FALSE, text |-> <<>>]
            ELSE [p |-> [q1 EXCEPT !.current = @ + consumed,
                                   !.column = @ + consumed],
                  ok |-> TRUE,
                  text |-> MemRange(q1.current, q1.current + consumed)]
        from(q1) == convert(q1, strtod(q1.current))
    IN  from(fp_skip_ws(q0))

----------------------------------------------------------------------------
(* fp_parse_quoted_string *)

\* A variant of the string loop that takes a backslash for an ordinary byte.
RECURSIVE StringLoopNoEscape(_)
StringLoopNoEscape(q) ==
    IF ~fp_at_end(q) /\ fp_peek(q) # "\""
    THEN StringLoopNoEscape(fp_advance(q))
    ELSE q

RECURSIVE StringLoop(_)
StringLoop(q) ==
    LET escaped(q1) == IF fp_at_end(q1) THEN q1 ELSE StringLoop(fp_advance(q1))
    IN  IF ~fp_at_end(q) /\ fp_peek(q) # "\""
        THEN IF fp_peek(q) = "\\"
             THEN escaped(fp_advance(q))
             ELSE StringLoop(fp_advance(q))
        ELSE q

\* [p, ok, view]: view is <<the view written to *result>>, <<>> when none is.
fp_parse_quoted_string(q0) ==
    LET fail(q, msg) ==
            [p |-> fp_set_error(q, FP_ERROR_UNTERMINATED_STRING, msg),
             ok |-> FALSE, view |-> <<>>]
        closed(start, close) ==
            IF ~close.ok
            THEN fail(close.p, "Expected closing quote")
            ELSE [p |-> close.p, ok |-> TRUE,
                  view |-> <<fp_view_t(start, close.p.current - start - 1)>>]
        opened(open) ==
            IF ~open.ok
            THEN fail(open.p, "Expected opening quote")
            ELSE closed(open.p.current, fp_match_char(StringLoop(open.p), "\""))
    IN  opened(fp_match_char(fp_skip_ws(q0), "\""))

----------------------------------------------------------------------------
(* CSV *)

FP_CSV_MAX_FIELDS == 64

RECURSIVE BareLoop(_)
BareLoop(q) ==
    IF ~fp_at_end(q) /\ fp_peek(q) # "," /\ fp_peek(q) # "\n" /\ fp_peek(q) # "\r"
    THEN BareLoop(fp_advance(q))
    ELSE q

RECURSIVE TrimEnd(_, _)
TrimEnd(end, start) ==
    IF end > start /\ (MemAt(end - 1) = " " \/ MemAt(end - 1) = "\t")
    THEN TrimEnd(end - 1, start)
    ELSE end

\* [p, ok, view, raised]: raised says that the field was a quoted string
\* whose parse failed (the only failure that writes the error slot).
fp_parse_csv_field(q0) ==
    LET quoted(s) == [p |-> s.p, ok |-> s.ok, view |-> s.view, raised |-> ~s.ok]
        bare(start, q2) ==
            [p |-> q2, ok |-> TRUE,
             view |-> <<fp_view_t(start, TrimEnd(q2.current, start) - start)>>,
             raised |-> FALSE]
        field(q1) ==
            IF fp_at_end(q1)
            THEN [p |-> q1, ok |-> FALSE, view |-> <<>>, raised |-> FALSE]
            ELSE IF fp_peek(q1) = "\""
            THEN quoted(fp_parse_quoted_string(q1))
            ELSE bare(q1.current, BareLoop(q1))
    IN  field(fp_skip_ws(q0))

\* fields[i] = v, the array held as the sequence of its written slots
\* (fields[i] of the code is flds[i + 1]).
StoreField(flds, i, v) ==
    IF i < Len(flds) THEN [flds EXCEPT ![i + 1] = v] ELSE Append(flds, v)

\* A variant of the turn that leaves the ',' after the field unread.
CsvFieldSeparatorUnread(row) ==
    LET parsed(f) ==
            IF ~f.ok
            THEN [row EXCEPT !.p = f.p, !.raised = f.raised, !.broke = TRUE]
            ELSE [p |-> f.p, fields |-> StoreField(row.fields, row.count, f.view[1]),
                  count |-> row.count + 1, raised |-> FALSE, broke |-> TRUE]
    IN  parsed(fp_parse_csv_field(row.p))

\* One turn of the field loop, on [p, fields, count, raised, broke]: broke
\* says that the turn left the loop by a break.
CsvField(row) ==
    LET separated(comma, v) ==
            [p |-> comma.p, fields |-> StoreField(row.fields, row.count, v),
             count |-> row.count + 1, raised |-> FALSE, broke |-> ~comma.ok]
        parsed(f) ==
            IF ~f.ok
            THEN [row EXCEPT !.p = f.p, !.raised = f.raised, !.broke = TRUE]
            ELSE separated(fp_match_char(f.p, ","), f.view[1])
    IN  parsed(fp_parse_csv_field(row.p))

\* A variant of the field loop that takes one turn more at a full array.
RECURSIVE CsvLoopOneMore(_)
CsvLoopOneMore(row) ==
    IF ~row.broke /\ ~fp_at_end(row.p) /\ row.count <= FP_CSV_MAX_FIELDS
    THEN CsvLoopOneMore(CsvField(row))
    ELSE row

\* The field loop.
RECURSIVE CsvLoop(_)
CsvLoop(row) ==
    IF ~row.broke /\ ~fp_at_end(row.p) /\ row.count < FP_CSV_MAX_FIELDS
    THEN CsvLoop(CsvField(row))
    ELSE row

\* A variant that leaves the line ending unread.
SkipNoLineEnding(q) == q

\* The line ending after the fields.
SkipLineEnding(q) ==
    LET after(cr) ==
            IF cr.ok THEN fp_match_char(cr.p, "\n").p ELSE fp_match_char(q, "\n").p
    IN  after(fp_match_char(q, "\r"))

fp_parse_csv_line(q, flds) ==
    LET finish(row) == [row EXCEPT !.p = SkipLineEnding(row.p)]
    IN  finish(CsvLoop([p |-> q, fields |-> flds, count |-> 0,
                        raised |-> FALSE, broke |-> FALSE]))

----------------------------------------------------------------------------
(* JSON structural skipping: each operator returns [p, ok] *)

fp_parse_json_string(q) == fp_parse_quoted_string(q)

fp_parse_json_number(q) == fp_parse_double(q)

Result(r) == [p |-> r.p, ok |-> r.ok]

Failed(r) == [p |-> r.p, ok |-> FALSE]

RECURSIVE fp_skip_json_value(_)
RECURSIVE ObjectLoop(_)
RECURSIVE ArrayLoop(_)

\* One round of the do-while of fp_skip_json_object, the rounds after it, and
\* the closing '}'.
ObjectLoop(q) ==
    LET separated(comma) ==
            IF comma.ok THEN ObjectLoop(comma.p) ELSE fp_match_char(comma.p, "}")
        skipped(value) ==
            IF ~value.ok THEN Failed(value)
            ELSE separated(fp_match_char(fp_skip_ws(value.p), ","))
        valued(colon) ==
            IF ~colon.ok THEN Failed(colon)
            ELSE skipped(fp_skip_json_value(fp_skip_ws(colon.p)))
        keyed(key) ==
            IF ~key.ok THEN Failed(key)
            ELSE valued(fp_match_char(fp_skip_ws(key.p), ":"))
    IN  keyed(fp_parse_json_string(fp_skip_ws(q)))

fp_skip_json_object(q) ==
    LET body(empty) == IF empty.ok THEN empty ELSE ObjectLoop(empty.p)
        opened(open) ==
            IF ~open.ok THEN Failed(open)
            ELSE body(fp_match_char(fp_skip_ws(open.p), "}"))
    IN  opened(fp_match_char(q, "{"))

ArrayLoop(q) ==
    LET separated(comma) ==
            IF comma.ok THEN ArrayLoop(comma.p) ELSE fp_match_char(comma.p, "]")
        skipped(value) ==
            IF ~value.ok THEN Failed(value)
            ELSE separated(fp_match_char(fp_skip_ws(value.p), ","))
    IN  skipped(fp_skip_json_value(fp_skip_ws(q)))

fp_skip_json_array(q) ==
    LET body(empty) == IF empty.ok THEN empty ELSE ArrayLoop(empty.p)
        opened(open) ==
            IF ~open.ok THEN Failed(open)
            ELSE body(fp_match_char(fp_skip_ws(open.p), "]"))
    IN  opened(fp_match_char(q, "["))

\* The literals are matched where a byte of them was just peeked, so the
\* length test of fp_match_str keeps memcmp inside [current, end).
fp_skip_json_value(q0) ==
    LET dispatch(q1, c) ==
            CASE c = "\"" -> Result(fp_parse_json_string(q1))
              [] c = "{" -> fp_skip_json_object(q1)
              [] c = "[" -> fp_skip_json_array(q1)
              [] c = "t" -> fp_match_str(q1, <<"t", "r", "u", "e">>, FALSE)
              [] c = "f" -> fp_match_str(q1, <<"f", "a", "l", "s", "e">>, FALSE)
              [] c = "n" -> fp_match_str(q1, <<"n", "u", "l", "l">>, FALSE)
              [] OTHER -> IF c = "-" \/ isdigit(c)
                          THEN Result(fp_parse_json_number(q1))
                          ELSE [p |-> q1, ok |-> FALSE]
        value(q1) == dispatch(q1, fp_peek(q1))
    IN  value(fp_skip_ws(q0))

----------------------------------------------------------------------------
(* The chain combinator: a chain is [success, result]; its parser is p *)

fp_chain == [success |-> TRUE, result |-> FP_VIEW_EMPTY]

\* snprintf(msg, sizeof(msg), "Expected '%c'", expected), read back as a C
\* string: a NUL byte ends it.
ExpectedMsg(expected) ==
    IF expected = NUL THEN "Expected '" ELSE "Expected '" \o expected \o "'"

\* A variant of fp_then_skip_ws without the test of chain.success.
fp_then_skip_ws_unguarded(ch, q) == [chain |-> ch, p |-> fp_skip_ws(q)]

\* Each step: [chain, p].
fp_then_skip_ws(ch, q) ==
    IF ch.success THEN [chain |-> ch, p |-> fp_skip_ws(q)]
                  ELSE [chain |-> ch, p |-> q]

fp_then_expect_char(ch, q, expected) ==
    LET matched(m) ==
            IF m.ok
            THEN [chain |-> [ch EXCEPT !.success = TRUE], p |-> m.p]
            ELSE [chain |-> [ch EXCEPT !.success = FALSE],
                  p |-> fp_set_error(m.p, FP_ERROR_CUSTOM, ExpectedMsg(expected))]
    IN  IF ch.success THEN matched(fp_match_char(q, expected))
                      ELSE [chain |-> ch, p |-> q]

fp_then_parse_string(ch, q) ==
    LET parsed(s) ==
            [chain |-> [success |-> s.ok,
                        result |-> IF s.ok THEN s.view[1] ELSE ch.result],
             p |-> s.p]
    IN  IF ch.success THEN parsed(fp_parse_quoted_string(q))
                      ELSE [chain |-> ch, p |-> q]

----------------------------------------------------------------------------
(* The same functions step by step.  A machine is [p, stack, ret, count]:  *)
(* the scanner, the frames of the calls in progress (innermost first), the *)
(* value the last return gave, and fp_parse_csv_line's count.  A frame is  *)
(* [fn, pc, a, b, v]: the function, the place in it, and its locals (a, b  *)
(* pointers or flags, v a uint64_t).  A step is one turn of a loop, or the *)
(* straight-line code up to the next call, loop or return.                 *)

Frame(fn) == [fn |-> fn, pc |-> "entry", a |-> 0, b |-> 0, v |-> U64Zero]

Top(m) == m.stack[1]

\* Go on at pc.
At(m, pc) == [m EXCEPT !.stack[1].pc = pc]

\* Go on at pc with local a set.
WithA(m, pc, a) == [m EXCEPT !.stack[1].pc = pc, !.stack[1].a = a]

\* The scanner becomes q.
Moved(m, q) == [m EXCEPT !.p = q]

\* Call fn, to go on at pc when it returns.
Enter(m, pc, fn) ==
    [m EXCEPT !.stack = <<Frame(fn)>> \o [@ EXCEPT ![1].pc = pc]]

\* Return r.
Leave(m, r) == [m EXCEPT !.stack = Tail(@), !.ret = r]

\* fp_skip_ws with fp_skip_whitespace inlined: a is the pointer the lane loop
\* and the scalar loop move, then the tracking loop catches up with it.
fp_skip_ws_step(m) ==
    LET f == Top(m)
    IN  CASE f.pc = "entry" ->
                 WithA(m, IF simd THEN "lanes" ELSE "scalar", m.p.current)
          [] f.pc = "lanes" ->
                 IF f.a + LaneWidth <= m.p.end /\ LaneAllWs(f.a)
                 THEN WithA(m, "lanes", f.a + LaneWidth)
                 ELSE At(m, "scalar")
          [] f.pc = "scalar" ->
                 IF f.a < m.p.end /\ IsWs(MemAt(f.a))
                 THEN WithA(m, "scalar", f.a + 1)
                 ELSE At(m, "track")
          [] f.pc = "track" ->
                 IF m.p.current < f.a THEN Moved(m, Step(m.p)) ELSE Leave(m, TRUE)

\* fp_parse_int64: a is 1 when negative, v the value.
fp_parse_int64_step(m) ==
    LET f == Top(m)
        fail(code, msg) == Leave(Moved(m, fp_set_error(m.p, code, msg)), FALSE)
        max_val == IF f.a = 1 THEN U64_INT64_MAX_PLUS_1 ELSE U64_INT64_MAX
    IN  CASE f.pc = "entry" -> Enter(m, "sign", "fp_skip_ws")
          [] f.pc = "sign" ->
                 IF fp_at_end(m.p) THEN fail(FP_ERROR_EOF, "Expected number")
                 ELSE IF fp_peek(m.p) = "-"
                      THEN WithA(Moved(m, fp_advance(m.p)), "digit", 1)
                 ELSE IF fp_peek(m.p) = "+"
                      THEN At(Moved(m, fp_advance(m.p)), "digit")
                 ELSE At(m, "digit")
          [] f.pc = "digit" ->
                 IF ~isdigit(fp_peek(m.p))
                 THEN fail(FP_ERROR_INVALID_NUMBER, "Expected digit")
                 ELSE At(m, "loop")
          [] f.pc = "loop" ->
                 IF ~fp_at_end(m.p) /\ isdigit(fp_peek(m.p))
                 THEN IF OverflowCheck(f.v, max_val, DigitVal(fp_peek(m.p)))
                      THEN fail(FP_ERROR_OVERFLOW, "Integer overflow")
                      ELSE [Moved(m, fp_advance(m.p)) EXCEPT
                                !.stack[1].v = U64MulAdd(f.v, 10, DigitVal(fp_peek(m.p)))]
                 ELSE Leave(m, TRUE)

\* The frame is at the negation of INT64_MIN (line 858).
NegatesInt64Min(f) ==
    /\ f.fn = "fp_parse_int64"
    /\ f.pc = "loop"
    /\ f.a = 1
    /\ f.v = U64_INT64_MAX_PLUS_1

\* fp_parse_double: a counts the bytes strtod has gone over.
fp_parse_double_step(m) ==
    LET f == Top(m)
        converted(consumed) ==
            IF f.a < consumed THEN WithA(m, "strtod", f.a + 1)
            ELSE IF consumed = 0
                 THEN Leave(Moved(m, fp_set_error(m.p, FP_ERROR_INVALID_NUMBER,
                                                  "Expected number")), FALSE)
                 ELSE Leave(Moved(m, [m.p EXCEPT !.current = @ + consumed,
                                                 !.column = @ + consumed]), TRUE)
    IN  CASE f.pc = "entry" -> Enter(m, "strtod", "fp_skip_ws")
          [] f.pc = "strtod" -> converted(strtod(m.p.current))

\* fp_parse_quoted_string: a is start.
fp_parse_quoted_string_step(m) ==
    LET f == Top(m)
        fail(q, msg) ==
            Leave(Moved(m, fp_set_error(q, FP_ERROR_UNTERMINATED_STRING, msg)), FALSE)
        opened(open) ==
            IF ~open.ok THEN fail(open.p, "Expected opening quote")
            ELSE WithA(Moved(m, open.p), "loop", open.p.current)
        escaped(q1) ==
            IF fp_at_end(q1) THEN At(Moved(m, q1), "close")
            ELSE Moved(m, fp_advance(q1))
        closed(close) ==
            IF ~close.ok THEN fail(close.p, "Expected closing quote")
            ELSE Leave(Moved(m, close.p), TRUE)
    IN  CASE f.pc = "entry" -> Enter(m, "open", "fp_skip_ws")
          [] f.pc = "open" -> opened(fp_match_char(m.p, "\""))
          [] f.pc = "loop" ->
                 IF ~fp_at_end(m.p) /\ fp_peek(m.p) # "\""
                 THEN IF fp_peek(m.p) = "\\"
                      THEN escaped(fp_advance(m.p))
                      ELSE Moved(m, fp_advance(m.p))
                 ELSE At(m, "close")
          [] f.pc = "close" -> closed(fp_match_char(m.p, "\""))

\* fp_parse_csv_field: a is start, b the end the trim loop moves back.
fp_parse_csv_field_step(m) ==
    LET f == Top(m)
    IN  CASE f.pc = "entry" -> Enter(m, "kind", "fp_skip_ws")
          [] f.pc = "kind" ->
                 IF fp_at_end(m.p) THEN Leave(m, FALSE)
                 ELSE IF fp_peek(m.p) = "\""
                      THEN Enter(m, "quoted", "fp_parse_quoted_string")
                 ELSE WithA(m, "bare", m.p.current)
          [] f.pc = "quoted" -> Leave(m, m.ret)
          [] f.pc = "bare" ->
                 IF /\ ~fp_at_end(m.p)
                    /\ fp_peek(m.p) # "," /\ fp_peek(m.p) # "\n" /\ fp_peek(m.p) # "\r"
                 THEN Moved(m, fp_advance(m.p))
                 ELSE [m EXCEPT !.stack[1].pc = "trim", !.stack[1].b = m.p.current]
          [] f.pc = "trim" ->
                 IF f.b > f.a /\ (MemAt(f.b - 1) = " " \/ MemAt(f.b - 1) = "\t")
                 THEN [m EXCEPT !.stack[1].b = f.b - 1]
                 ELSE Leave(m, TRUE)

fp_parse_csv_line_step(m) ==
    LET f == Top(m)
        separated(comma) ==
            [Moved(m, comma.p) EXCEPT !.count = @ + 1,
                 !.stack[1].pc = IF comma.ok THEN "loop" ELSE "eol"]
    IN  CASE f.pc = "entry" -> [At(m, "loop") EXCEPT !.count = 0]
          [] f.pc = "loop" ->
                 IF ~fp_at_end(m.p) /\ m.count < FP_CSV_MAX_FIELDS
                 THEN Enter(m, "field", "fp_parse_csv_field")
                 ELSE At(m, "eol")
          [] f.pc = "field" ->
                 IF ~m.ret THEN At(m, "eol")
                 ELSE separated(fp_match_char(m.p, ","))
          [] f.pc = "eol" -> Leave(Moved(m, SkipLineEnding(m.p)), TRUE)

fp_skip_json_value_step(m) ==
    LET f == Top(m)
        c == fp_peek(m.p)
        literal(r) == Leave(Moved(m, r.p), r.ok)
    IN  CASE f.pc = "entry" -> Enter(m, "switch", "fp_skip_ws")
          [] f.pc = "switch" ->
                 CASE c = "\"" -> Enter(m, "tail", "fp_parse_quoted_string")
                   [] c = "{" -> Enter(m, "tail", "fp_skip_json_object")
                   [] c = "[" -> Enter(m, "tail", "fp_skip_json_array")
                   [] c = "t" -> literal(fp_match_str(m.p, <<"t", "r", "u", "e">>, FALSE))
                   [] c = "f" -> literal(fp_match_str(m.p, <<"f", "a", "l", "s", "e">>, FALSE))
                   [] c = "n" -> literal(fp_match_str(m.p, <<"n", "u", "l", "l">>, FALSE))
                   [] c = "-" \/ isdigit(c) -> Enter(m, "tail", "fp_parse_double")
                   [] OTHER -> Leave(m, FALSE)
          [] f.pc = "tail" -> Leave(m, m.ret)

\* What follows a matched opening bracket: go on at pc after fp_skip_ws.
Bracket(m, open, pc) ==
    IF ~open.ok THEN Leave(m, FALSE) ELSE Enter(Moved(m, open.p), pc, "fp_skip_ws")

fp_skip_json_object_step(m) ==
    LET f == Top(m)
        empty(close) ==
            IF close.ok THEN Leave(Moved(m, close.p), TRUE) ELSE At(m, "do")
        colon(r) ==
            IF ~r.ok THEN Leave(m, FALSE) ELSE Enter(Moved(m, r.p), "value", "fp_skip_ws")
        closing(r) == Leave(Moved(m, r.p), r.ok)
        again(comma) ==
            IF comma.ok THEN At(Moved(m, comma.p), "do")
            ELSE closing(fp_match_char(m.p, "}"))
    IN  CASE f.pc = "entry" -> Bracket(m, fp_match_char(m.p, "{"), "empty")
          [] f.pc = "empty" -> empty(fp_match_char(m.p, "}"))
          [] f.pc = "do" -> Enter(m, "key", "fp_skip_ws")
          [] f.pc = "key" -> Enter(m, "after_key", "fp_parse_quoted_string")
          [] f.pc = "after_key" ->
                 IF ~m.ret THEN Leave(m, FALSE) ELSE Enter(m, "colon", "fp_skip_ws")
          [] f.pc = "colon" -> colon(fp_match_char(m.p, ":"))
          [] f.pc = "value" -> Enter(m, "after_value", "fp_skip_json_value")
          [] f.pc = "after_value" ->
                 IF ~m.ret THEN Leave(m, FALSE) ELSE Enter(m, "while", "fp_skip_ws")
          [] f.pc = "while" -> again(fp_match_char(m.p, ","))

fp_skip_json_array_step(m) ==
    LET f == Top(m)
        empty(close) ==
            IF close.ok THEN Leave(Moved(m, close.p), TRUE) ELSE At(m, "do")
        closing(r) == Leave(Moved(m, r.p), r.ok)
        again(comma) ==
            IF comma.ok THEN At(Moved(m, comma.p), "do")
            ELSE closing(fp_match_char(m.p, "]"))
    IN  CASE f.pc = "entry" -> Bracket(m, fp_match_char(m.p, "["), "empty")
          [] f.pc = "empty" -> empty(fp_match_char(m.p, "]"))
          [] f.pc = "do" -> Enter(m, "value", "fp_skip_ws")
          [] f.pc = "value" -> Enter(m, "after_value", "fp_skip_json_value")
          [] f.pc = "after_value" ->
                 IF ~m.ret THEN Leave(m, FALSE) ELSE Enter(m, "while", "fp_skip_ws")
          [] f.pc = "while" -> again(fp_match_char(m.p, ","))

----------------------------------------------------------------------------
(* The operations a caller can invoke, one action each.  `ret` is the bool *)
(* the call returned (TRUE for the calls that report no failure).  Every   *)
(* call is handed fresh result storage, so int_out, dbl_out, str_out and   *)
(* fields show what that call wrote.                                       *)

NoOutputs == [int |-> <<>>, dbl |-> <<>>, str |-> <<>>, fields |-> <<>>, count |-> 0]

Called(name, argument, q, r, out) ==
    /\ ~aborted
    /\ before' = p
    /\ op' = name
    /\ arg' = argument
    /\ p' = q
    /\ ret' = r
    /\ int_out' = out.int
    /\ dbl_out' = out.dbl
    /\ str_out' = out.str
    /\ fields' = out.fields
    /\ count' = out.count
    /\ rows' = IF name = "fp_parse_csv_line" /\ ~fp_at_end(p) THEN rows + 1 ELSE rows
    /\ stack = <<>>
    /\ UNCHANGED <<mem, simd, sample, stack, steps, timing>>

Advance ==
    /\ Called("fp_advance", <<>>, fp_advance(p), TRUE, NoOutputs)
    /\ UNCHANGED <<chain, chain_before, aborted>>

SkipWs ==
    /\ Called("fp_skip_ws", <<>>, fp_skip_ws(p), TRUE, NoOutputs)
    /\ UNCHANGED <<chain, chain_before, aborted>>

MatchChar(expected) ==
    /\ LET m == fp_match_char(p, expected)
       IN  Called("fp_match_char", <<expected>>, m.p, m.ok, NoOutputs)
    /\ UNCHANGED <<chain, chain_before, aborted>>

MatchStr(expected) ==
    /\ \E oob \in BOOLEAN :
           LET m == fp_match_str(p, expected, oob)
           IN  Called("fp_match_str", expected, m.p, m.ok, NoOutputs)
    /\ UNCHANGED <<chain, chain_before, aborted>>

\* Negating INT64_MIN is undefined: a wrapping build writes INT64_MIN and
\* returns, a trapping build (-ftrapv, a sanitizer) kills the process there.
ParseInt64 ==
    /\ LET r == fp_parse_int64(p)
       IN  \/ /\ Called("fp_parse_int64", <<>>, r.p, r.ok,
                        [NoOutputs EXCEPT !.int = r.value])
              /\ aborted' = FALSE
           \/ /\ r.negate_overflows
              /\ Called("fp_parse_int64", <<>>, r.p, FALSE, NoOutputs)
              /\ aborted' = TRUE
    /\ UNCHANGED <<chain, chain_before>>

ParseDouble ==
    /\ LET r == fp_parse_double(p)
       IN  Called("fp_parse_double", <<>>, r.p, r.ok,
                  [NoOutputs EXCEPT !.dbl = <<r.text>>])
    /\ UNCHANGED <<chain, chain_before, aborted>>

ParseQuotedString ==
    /\ LET r == fp_parse_quoted_string(p)
       IN  Called("fp_parse_quoted_string", <<>>, r.p, r.ok,
                  [NoOutputs EXCEPT !.str = r.view])
    /\ UNCHANGED <<chain, chain_before, aborted>>

\* fp_parse_csv_line returns a count, no bool: ret says that no field of the
\* line was a quoted string that failed to parse.
ParseCsvLine ==
    /\ LET r == fp_parse_csv_line(p, <<>>)
       IN  Called("fp_parse_csv_line", <<>>, r.p, ~r.raised,
                  [NoOutputs EXCEPT !.fields = r.fields, !.count = r.count])
    /\ UNCHANGED <<chain, chain_before, aborted>>

\* fp_init_cstr(text): the caller makes the scanner over a text of its own.
InitCstr(text) ==
    /\ stack = <<>>
    /\ op = "fp_init"
    /\ mem = <<>>
    /\ text # <<>>
    /\ mem' = text
    /\ p' = fp_init(Len(text))
    /\ before' = fp_init(Len(text))
    /\ op' = "fp_init_cstr"
    /\ UNCHANGED <<simd, arg, ret, count, int_out, dbl_out, str_out, fields,
                   chain, chain_before, aborted, sample, rows, stack, steps,
                   timing>>

\* One turn of the README's loop: while (!fp_at_end(&parser)) a row is read.
ReadRowsTurn == ~fp_at_end(p) /\ ParseCsvLine

SkipJsonValue ==
    /\ LET r == fp_skip_json_value(p)
       IN  Called("fp_skip_json_value", <<>>, r.p, r.ok, NoOutputs)
    /\ UNCHANGED <<chain, chain_before, aborted>>

\* The view functions take their views by value and touch no scanner: arg
\* holds the arguments, str_out the view returned, int_out the int returned.
ViewSubstr ==
    /\ sample.kind = "substr"
    /\ Called("fp_view_substr", <<sample.view, sample.start, sample.len>>, p, TRUE,
              [NoOutputs EXCEPT
                   !.str = <<fp_view_substr(sample.view, sample.start, sample.len)>>])
    /\ UNCHANGED <<chain, chain_before, aborted>>

ViewEquals ==
    /\ sample.kind = "pair"
    /\ Called("fp_view_equals", <<sample.a, sample.b>>, p,
              fp_view_equals(sample.a, sample.b), NoOutputs)
    /\ UNCHANGED <<chain, chain_before, aborted>>

ViewCompare ==
    /\ sample.kind = "pair"
    /\ \E mag \in {1, 2} :
           Called("fp_view_compare", <<sample.a, sample.b>>, p, TRUE,
                  [NoOutputs EXCEPT
                       !.int = <<fp_view_compare(sample.a, sample.b, mag)>>])
    /\ UNCHANGED <<chain, chain_before, aborted>>

\* The caller calls fn on the fresh scanner, to be run step by step.
Begin(fn) ==
    /\ stack = <<>>
    /\ op = "fp_init"
    /\ ~aborted
    /\ op' = fn
    /\ before' = p
    /\ stack' = <<Frame(fn)>>
    /\ steps' = 0
    /\ UNCHANGED <<mem, simd, p, arg, ret, count, int_out, dbl_out, str_out,
                   fields, chain, chain_before, aborted, sample, rows, timing>>

\* The call in progress is in fn and takes the step that leads to machine m.
Stepped(fn, m) ==
    /\ stack # <<>>
    /\ stack[1].fn = fn
    /\ ~aborted
    /\ p' = m.p
    /\ stack' = m.stack
    /\ ret' = m.ret
    /\ count' = m.count
    /\ steps' = steps + 1
    /\ UNCHANGED <<mem, simd, before, op, arg, int_out, dbl_out, str_out,
                   fields, chain, chain_before, aborted, sample, rows, timing>>

Machine == [p |-> p, stack |-> stack, ret |-> ret, count |-> count]

SkipWsStep == Stepped("fp_skip_ws", fp_skip_ws_step(Machine))

\* A trapping build dies at the negation of INT64_MIN: the call never returns.
ParseInt64Step ==
    \/ Stepped("fp_parse_int64", fp_parse_int64_step(Machine))
    \/ /\ stack # <<>>
       /\ NegatesInt64Min(stack[1])
       /\ fp_at_end(p) \/ ~isdigit(fp_peek(p))
       /\ ~aborted
       /\ aborted' = TRUE
       /\ UNCHANGED <<mem, simd, p, before, op, arg, ret, count, int_out, dbl_out,
                      str_out, fields, chain, chain_before, sample, rows,
                      stack, steps, timing>>

ParseDoubleStep == Stepped("fp_parse_double", fp_parse_double_step(Machine))

ParseQuotedStringStep ==
    Stepped("fp_parse_quoted_string", fp_parse_quoted_string_step(Machine))

ParseCsvFieldStep == Stepped("fp_parse_csv_field", fp_parse_csv_field_step(Machine))

ParseCsvLineStep == Stepped("fp_parse_csv_line", fp_parse_csv_line_step(Machine))

SkipJsonValueStep == Stepped("fp_skip_json_value", fp_skip_json_value_step(Machine))

SkipJsonObjectStep == Stepped("fp_skip_json_object", fp_skip_json_object_step(Machine))

SkipJsonArrayStep == Stepped("fp_skip_json_array", fp_skip_json_array_step(Machine))

ChainBegin ==
    /\ Called("fp_chain", <<>>, p, TRUE, NoOutputs)
    /\ chain' = fp_chain
    /\ chain_before' = chain
    /\ UNCHANGED aborted

ChainStep(name, argument, r) ==
    /\ Called(name, argument, r.p, r.chain.success, NoOutputs)
    /\ chain_before' = chain
    /\ chain' = r.chain
    /\ UNCHANGED aborted

ThenSkipWs == ChainStep("fp_then_skip_ws", <<>>, fp_then_skip_ws(chain, p))

ThenExpectChar(expected) ==
    ChainStep("fp_then_expect_char", <<expected>>,
              fp_then_expect_char(chain, p, expected))

ThenParseString ==
    ChainStep("fp_then_parse_string", <<>>, fp_then_parse_string(chain, p))

----------------------------------------------------------------------------
(* The timer.  Time is the reading of the build's monotonic clock, an      *)
(* index into Instants: ticks of 100 ns since boot.  A Windows build reads *)
(* it as the performance counter of a 10 MHz QueryPerformanceFrequency     *)
(* (one count per tick), a POSIX build as the timespec of CLOCK_MONOTONIC. *)

\* v * 1000000000ULL in uint64_t (modulo 2^64).
U64TimesBillion(v) == U64MulAdd(U64MulAdd(U64MulAdd(v, 1000, 0), 1000, 0), 1000, 0)

\* v / frequency.QuadPart in uint64_t, for the frequency of 10000000.
U64DivFrequency(v) == U64Div(U64Div(v, 10000), 1000)

\* The timespec of the instant of t ticks.
Timespec(t) ==
    LET sec == U64DivFrequency(t)
    IN  [tv_sec |-> sec,
         tv_nsec |-> U64MulAdd(U64Sub(t, U64MulAdd(U64MulAdd(sec, 10000, 0), 1000, 0)),
                               100, 0)]

\* (counter.QuadPart * 1000000000ULL) / frequency.QuadPart
WindowsTimestamp(counter) == U64DivFrequency(U64TimesBillion(counter))

\* ts.tv_sec * 1000000000ULL + ts.tv_nsec
PosixTimestamp(ts) == U64Add(U64TimesBillion(ts.tv_sec), ts.tv_nsec)

\* The first count whose product with 1000000000 is 2^64 or more.
FirstWrappingCount ==
    U64Add(U64Div(U64Div(U64Div(<<65535, 65535, 65535, 65535>>, 1000), 1000), 1000),
           U64(1))

TicksPerSecond == <<38528, 152, 0, 0>>

\* The instants the clock is read at, in order: boot, a tick and a second
\* after it, the ticks around the first wrapping count (30 minutes 44
\* seconds after boot), a second later, and the same count again later.
Instants ==
    << U64Zero, U64(1), TicksPerSecond,
       U64Sub(FirstWrappingCount, U64(1)), FirstWrappingCount,
       U64Add(FirstWrappingCount, TicksPerSecond),
       U64Add(FirstWrappingCount, FirstWrappingCount) >>

get_timestamp_ns(c) ==
    IF c.win32 THEN WindowsTimestamp(Instants[c.now])
               ELSE PosixTimestamp(Timespec(Instants[c.now]))

timer_init == [start_time |-> U64Zero, end_time |-> U64Zero, is_running |-> 0]

timer_start(t, c) ==
    [t EXCEPT !.start_time = get_timestamp_ns(c), !.is_running = 1]

timer_stop(t, c) ==
    IF t.is_running # 0
    THEN [t EXCEPT !.end_time = get_timestamp_ns(c), !.is_running = 0]
    ELSE t

timer_elapsed_ns(t, c) ==
    IF t.is_running # 0 THEN U64Sub(get_timestamp_ns(c), t.start_time)
                        ELSE U64Sub(t.end_time, t.start_time)

\* A timer call: the scanner is left alone and the clock stands still.
TimerCalled(name, t) ==
    /\ timer_op' = name
    /\ timer_before' = timer
    /\ timer' = t
    /\ UNCHANGED <<mem, simd, p, before, op, arg, ret, count, int_out, dbl_out,
                   str_out, fields, chain, chain_before, aborted, sample, rows,
                   stack, steps, clock>>

TimerInit == TimerCalled("timer_init", timer_init)

TimerStart == TimerCalled("timer_start", timer_start(timer, clock))

TimerStop == TimerCalled("timer_stop", timer_stop(timer, clock))

\* Time passes: the clock never goes back.
Tick ==
    /\ clock.now < Len(Instants)
    /\ clock' = [clock EXCEPT !.now = @ + 1]
    /\ UNCHANGED <<mem, simd, p, before, op, arg, ret, count, int_out, dbl_out,
                   str_out, fields, chain, chain_before, aborted, sample, rows,
                   stack, steps, timer, timer_before, timer_op>>

----------------------------------------------------------------------------
(* Spec: any sequence of scanner operations on a scanner over one of       *)
(* Buffers, created by fp_init(buffer, len) with len the buffer's length   *)
(* or up to MaxCut bytes less.                                             *)

Q == "\""
BS == "\\"

INT64_MIN_TEXT ==
    <<"-", "9", "2", "2", "3", "3", "7", "2", "0", "3", "6", "8", "5", "4", "7",
      "7", "5", "8", "0", "8">>

MaxCut == 2

Buffers ==
    { <<"1", "2", "e", "1">>,
      <<" ", "-", "7", ",", "x">>,
      <<Q, "a", Q, ",", "b", "\n", "c">>,
      <<"{", Q, "a", Q, ":", "}">>,
      <<"[", "1", ",", "]">>,
      <<"t", "r", "u", "e", " ">>,
      <<" ", Q, "a", BS, Q>>,
      <<"\n", "{", " ", Q, "k", Q>>,
      <<Q, Q, ",", ",", "x">>,
      INT64_MIN_TEXT }

\* The bytes the caller passes to fp_match_char / fp_then_expect_char.
ArgBytes == {"{", Q, ",", "x", NUL}

\* The literals the caller passes to fp_match_str.
ArgLiterals == {<<"t", "r", "u", "e">>, <<"e", "1">>, <<>>}

NoSample == [kind |-> "none"]

\* The caller's timer, initialised and not used.
InitTimer ==
    /\ timer = timer_init
    /\ timer_before = timer_init
    /\ timer_op = "timer_init"

InitOutputs ==
    /\ InitTimer
    /\ clock = [win32 |-> FALSE, now |-> 1]
    /\ op = "fp_init"
    /\ arg = <<>>
    /\ ret = TRUE
    /\ count = 0
    /\ int_out = <<>>
    /\ dbl_out = <<>>
    /\ str_out = <<>>
    /\ fields = <<>>
    /\ chain = fp_chain
    /\ chain_before = fp_chain
    /\ aborted = FALSE
    /\ rows = 0
    /\ stack = <<>>
    /\ steps = 0

\* The scanner the caller of the timer has, of no part in its calls.
InitScannerUnused ==
    /\ mem = <<>>
    /\ sample = NoSample
    /\ simd = FALSE
    /\ p = fp_init(0)
    /\ before = p
    /\ op = "fp_init"
    /\ arg = <<>>
    /\ ret = TRUE
    /\ count = 0
    /\ int_out = <<>>
    /\ dbl_out = <<>>
    /\ str_out = <<>>
    /\ fields = <<>>
    /\ chain = fp_chain
    /\ chain_before = fp_chain
    /\ aborted = FALSE
    /\ rows = 0
    /\ stack = <<>>
    /\ steps = 0

InitOver(buffers) ==
    /\ mem \in buffers
    /\ sample = NoSample
    /\ simd \in BOOLEAN
    /\ \E len \in 0..Len(mem) : Len(mem) - len <= MaxCut /\ p = fp_init(len)
    /\ before = p
    /\ InitOutputs

Init == InitOver(Buffers)

Next ==
    \/ Advance
    \/ SkipWs
    \/ \E c \in ArgBytes : MatchChar(c)
    \/ \E lit \in ArgLiterals : MatchStr(lit)
    \/ ParseInt64
    \/ ParseDouble
    \/ ParseQuotedString
    \/ ParseCsvLine
    \/ SkipJsonValue

Spec == Init /\ [][Next]_vars

----------------------------------------------------------------------------
(* SpecChain: chains of fp_then_* steps over one scanner *)

ChainBuffers ==
    { <<" ", "{", " ", Q, "k", Q, " ", ":", " ", Q, "v", Q, " ", "}">>,
      <<"{", Q, "k", BS, Q, Q, "\n", Q, Q>>,
      <<" ", Q, "a">>,
      <<"\n", " ", "x", " ", Q, "b", Q>> }

\* The bytes the caller passes to fp_then_expect_char.
ChainArgBytes == {"{", ":", "x", NUL}

InitChain == InitOver(ChainBuffers)

NextChain ==
    \/ ChainBegin
    \/ ThenSkipWs
    \/ \E c \in ChainArgBytes : ThenExpectChar(c)
    \/ ThenParseString

SpecChain == InitChain /\ [][NextChain]_vars

----------------------------------------------------------------------------
(* SpecWs: whitespace runs long enough for the 16-byte lanes.  A buffer is *)
(* n bytes of whitespace (space, tab, newline, carriage return in turn)    *)
(* with one non-whitespace byte at offset k when k < n.                    *)

MaxWsLen == 34

WsByte(i) == <<" ", "\t", "\n", "\r">>[(i % 4) + 1]

WsBuffer(n, k) == [i \in 1..n |-> IF i - 1 = k THEN "x" ELSE WsByte(i - 1)]

WsBuffers == {WsBuffer(n, k) : n \in 0..MaxWsLen, k \in 0..MaxWsLen}

InitWs == InitOver(WsBuffers)

NextWs ==
    \/ Advance
    \/ SkipWs

SpecWs == InitWs /\ [][NextWs]_vars

----------------------------------------------------------------------------
(* SpecInt: fp_parse_int64 on the decimal text of a 64-bit integer.  The   *)
(* text is made the way printf("%lld") makes it: the digits of the         *)
(* magnitude by repeated division by 10, after a '-' for a negative.       *)

DigitChar(d) == <<"0", "1", "2", "3", "4", "5", "6", "7", "8", "9">>[d + 1]

RECURSIVE U64Digits(_)
U64Digits(v) ==
    IF v = U64Zero THEN <<>>
    ELSE Append(U64Digits(U64Div(v, 10)), DigitChar(U64DivMod(v, 10).rem))

U64Text(v) == IF v = U64Zero THEN <<"0">> ELSE U64Digits(v)

Int64Text(n) ==
    IF Int64IsNegative(n) THEN <<"-">> \o U64Text(U64Sub(U64Zero, n))
                          ELSE U64Text(n)

U64_INT64_MAX_PLUS_2 == <<1, 0, 0, 32768>>

LimbSamples == {0, 1, 9, 10, 32767, 32768, 65535}

\* INT64_MAX / 10 and its neighbours, where the overflow check turns.
NearTenth ==
    { U64Div(U64_INT64_MAX, 10),
      U64Sub(U64Div(U64_INT64_MAX, 10), U64(1)),
      U64MulAdd(U64Div(U64_INT64_MAX, 10), 1, 1) }

\* The int64_t values parsed (as bit patterns): INT64_MIN, INT64_MAX, -1, 0
\* and 2400 others.
IntSamples ==
    {<<a, b, c, d>> : a \in LimbSamples, b \in LimbSamples,
                      c \in LimbSamples, d \in LimbSamples} \cup NearTenth

\* Texts with no digit where the number should start: nothing, whitespace,
\* a sign alone, a sign before something else, a letter, a point.
NoDigitTexts ==
    { <<>>, <<" ">>, <<"\t", "\n">>, <<"+">>, <<"-">>, <<" ", "-">>,
      <<"+", "-", "1">>, <<"-", "-", "1">>, <<"-", "x">>, <<"x", "1">>,
      <<" ", "+", " ", "1">>, <<".", "5">> }

\* Texts of numbers beyond the int64_t range, with digits or other bytes
\* after the digit that goes beyond it.
OverflowTexts ==
    { U64Text(U64_INT64_MAX_PLUS_1) \o <<"9">>,
      U64Text(U64_INT64_MAX) \o <<"0">>,
      <<"-">> \o U64Text(U64_INT64_MAX_PLUS_2) \o <<"0", "1">>,
      <<"-">> \o U64Text(U64_INT64_MAX_PLUS_1) \o <<"0">>,
      <<" ", "+">> \o [k \in 1..20 |-> "9"] \o <<"x">>,
      <<"0", "0">> \o U64Text(U64_INT64_MAX_PLUS_1) \o <<",", "5">>,
      <<"\n", "-", "0">> \o U64Text(U64_INT64_MAX_PLUS_2) }

\* [kind, n, text]: the decimal text of the int64_t n, with or without '+';
\* the texts of 2^63 and of -(2^63 + 1), one beyond the int64_t range; and
\* the texts without a digit.
IntInputs ==
    {[kind |-> "int64", n |-> n, text |-> Int64Text(n)] : n \in IntSamples}
    \cup {[kind |-> "int64", n |-> n, text |-> <<"+">> \o Int64Text(n)] :
              n \in {m \in IntSamples : ~Int64IsNegative(m)}}
    \cup {[kind |-> "beyond", n |-> U64_INT64_MAX_PLUS_1,
           text |-> U64Text(U64_INT64_MAX_PLUS_1)],
          [kind |-> "beyond", n |-> U64_INT64_MAX_PLUS_1,
           text |-> <<"+">> \o U64Text(U64_INT64_MAX_PLUS_1)],
          [kind |-> "beyond", n |-> U64_INT64_MAX_PLUS_2,
           text |-> <<"-">> \o U64Text(U64_INT64_MAX_PLUS_2)]}
    \cup {[kind |-> "nodigit", n |-> U64Zero, text |-> t] : t \in NoDigitTexts}
    \cup {[kind |-> "overflow", n |-> U64Zero, text |-> t] : t \in OverflowTexts}

InitInt ==
    /\ sample \in IntInputs
    /\ mem = sample.text
    /\ simd \in BOOLEAN
    /\ p = fp_init(Len(mem))
    /\ before = p
    /\ InitOutputs

NextInt == ParseInt64

SpecInt == InitInt /\ [][NextInt]_vars

----------------------------------------------------------------------------
(* SpecCsv: the README's loop, fp_parse_csv_line until fp_at_end, over CSV *)
(* text of up to MaxRows rows, each ended by a newline.  A row is a        *)
(* sequence of fields; a field is written bare or between quotes.          *)

MaxRows == 3

Bare(bytes) == [quoted |-> FALSE, bytes |-> bytes]
Quoted(bytes) == [quoted |-> TRUE, bytes |-> bytes]

\* One field more than a row of the fields array holds.
LongRow == [k \in 1..(FP_CSV_MAX_FIELDS + 1) |-> Bare(<<"a">>)]

\* a | "x,y",b c | "p<newline>q",7,"a\"b" | a blank line | a, | the long row
RowSamples ==
    { <<Bare(<<"a">>)>>,
      <<Quoted(<<"x", ",", "y">>), Bare(<<"b", " ", "c">>)>>,
      <<Quoted(<<"p", "\n", "q">>), Bare(<<"7">>), Quoted(<<"a", BS, Q, "b">>)>>,
      <<>>,
      <<Bare(<<"a">>), Bare(<<>>)>>,
      LongRow }

FieldText(f) == IF f.quoted THEN <<Q>> \o f.bytes \o <<Q>> ELSE f.bytes

RECURSIVE RowText(_)
RowText(row) ==
    IF row = <<>> THEN <<>>
    ELSE IF Len(row) = 1 THEN FieldText(row[1])
    ELSE FieldText(row[1]) \o <<",">> \o RowText(Tail(row))

RECURSIVE CsvText(_)
CsvText(rs) ==
    IF rs = <<>> THEN <<>>
    ELSE RowText(rs[1]) \o <<"\n">> \o CsvText(Tail(rs))

CsvInputs ==
    {[kind |-> "csv", rows |-> rs, text |-> CsvText(rs)] :
        rs \in UNION {[1..n -> RowSamples] : n \in 1..MaxRows}}

InitCsv ==
    /\ sample \in CsvInputs
    /\ mem = sample.text
    /\ simd \in BOOLEAN
    /\ p = fp_init(Len(mem))
    /\ before = p
    /\ InitOutputs

NextCsv == ParseCsvLine

SpecCsv == InitCsv /\ [][NextCsv]_vars

----------------------------------------------------------------------------
(* SpecJson: fp_skip_json_value over JSON text nested up to MaxDepth, and  *)
(* over text with a value missing.  The text is the scanner's whole input; *)
(* it is either a C string of its own or the head of a longer buffer.      *)

MaxDepth == 2

\* What separates the tokens of one text.
Gaps == {<<>>, <<" ">>, <<"\n", "\t">>, <<"\r">>}

JsonString(bytes) == <<Q>> \o bytes \o <<Q>>

\* "a"  "a\""  7  -12  true  false  null
Scalars ==
    { JsonString(<<"a">>), JsonString(<<"a", BS, Q>>), <<"7">>, <<"-", "1", "2">>,
      <<"t", "r", "u", "e">>, <<"f", "a", "l", "s", "e">>, <<"n", "u", "l", "l">> }

\* The second element of an array, the second member's value of an object.
Seconds == {<<"0">>, JsonString(<<"b">>)}

JsonArray1(g, v) == <<"[">> \o g \o v \o g \o <<"]">>
JsonArray2(g, v, w) == <<"[">> \o g \o v \o g \o <<",">> \o g \o w \o g \o <<"]">>
JsonMember(g, key, v) == JsonString(<<key>>) \o g \o <<":">> \o g \o v
JsonObject1(g, v) == <<"{">> \o g \o JsonMember(g, "k", v) \o g \o <<"}">>
JsonObject2(g, v, w) ==
    <<"{">> \o g \o JsonMember(g, "k", v) \o g \o <<",">> \o g
           \o JsonMember(g, "b", w) \o g \o <<"}">>

\* The well-formed texts nested up to d, their tokens separated by g.
RECURSIVE JsonValues(_, _)
JsonValues(d, g) ==
    IF d = 0 THEN Scalars
    ELSE LET nest(inner) ==
                 Scalars
                 \cup {<<"[">> \o g \o <<"]">>, <<"{">> \o g \o <<"}">>}
                 \cup {JsonArray1(g, v) : v \in inner}
                 \cup {JsonArray2(g, v, w) : v \in inner, w \in Seconds}
                 \cup {JsonObject1(g, v) : v \in inner}
                 \cup {JsonObject2(g, v, w) : v \in inner, w \in Seconds}
         IN  nest(JsonValues(d - 1, g))

\* Objects whose ':' is followed by '}' or ',', arrays with a comma before
\* ']', alone and one level down.
MissingValues(g) ==
    LET bad == {JsonObject1(g, <<>>), JsonObject2(g, <<>>, <<"0">>)}
               \cup {JsonObject2(g, v, <<>>) : v \in Scalars}
               \cup {JsonArray2(g, v, <<>>) : v \in JsonValues(MaxDepth - 1, g)}
    IN  bad \cup {JsonArray1(g, b) : b \in bad} \cup {JsonObject1(g, b) : b \in bad}

\* The bytes that follow the text in memory (then a NUL).
Tails == {<<>>, <<"3">>}

JsonInputs ==
    {[kind |-> "json", text |-> t] : t \in UNION {JsonValues(MaxDepth, g) : g \in Gaps}}
    \cup {[kind |-> "missing", text |-> t] : t \in UNION {MissingValues(g) : g \in Gaps}}

InitJson ==
    /\ sample \in JsonInputs
    /\ \E tail \in Tails : mem = sample.text \o tail
    /\ simd \in BOOLEAN
    /\ p = fp_init(Len(sample.text))
    /\ before = p
    /\ InitOutputs

NextJson == SkipJsonValue

SpecJson == InitJson /\ [][NextJson]_vars

----------------------------------------------------------------------------
(* SpecStr: fp_parse_quoted_string, called again and again, on every byte  *)
(* string of up to MaxStrLen bytes over quote, backslash, a letter and a   *)
(* space, the scanner ending at the buffer's end or up to MaxCut before it.*)

MaxStrLen == 5

StrBytes == {Q, BS, "a", " "}

StrBuffers == UNION {[1..n -> StrBytes] : n \in 0..MaxStrLen}

InitStr == InitOver(StrBuffers)

NextStr == ParseQuotedString

SpecStr == InitStr /\ [][NextStr]_vars

----------------------------------------------------------------------------
(* SpecView: the view functions on the views over every buffer of up to    *)
(* MaxViewLen bytes of two letters; fp_view_substr with offsets and        *)
(* lengths from both ends of the size_t range.                             *)

MaxViewLen == 3

ViewBuffers == UNION {[1..n -> {"a", "b"}] : n \in 0..MaxViewLen}

\* The views into a buffer of n bytes, empty ones included.
ViewsOver(n) == {v \in [data : 0..n, len : 0..n] : v.data + v.len <= n}

SIZE_MAX == <<65535, 65535, 65535, 65535>>

SizeSamples ==
    {U64(0), U64(1), U64(2), U64(3), U64_INT64_MAX_PLUS_1,
     U64Sub(SIZE_MAX, U64(1)), SIZE_MAX}

ViewInputs(n) ==
    {[kind |-> "substr", view |-> v, start |-> s, len |-> l] :
        v \in ViewsOver(n), s \in SizeSamples, l \in SizeSamples}
    \cup {[kind |-> "pair", a |-> a, b |-> b] : a \in ViewsOver(n), b \in ViewsOver(n)}

InitView ==
    /\ mem \in ViewBuffers
    /\ sample \in ViewInputs(Len(mem))
    /\ simd \in BOOLEAN
    /\ p = fp_init(Len(mem))
    /\ before = p
    /\ InitOutputs

NextView == ViewSubstr \/ ViewEquals \/ ViewCompare

SpecView == InitView /\ [][NextView]_vars

----------------------------------------------------------------------------
(* SpecSteps: one call of fp_skip_ws, fp_parse_int64,                      *)
(* fp_parse_quoted_string, fp_parse_csv_line or fp_skip_json_value on a    *)
(* fresh scanner over any prefix of a buffer, run step by step.            *)
(* SpecStepsFair: a call in progress keeps taking steps.                   *)

\* The digits that go on after a number, up to MaxTail of them.
MaxTail == 30

DigitTail == [k \in 1..MaxTail |-> "0"]

StepBuffers ==
    { <<"{", " ", Q, "k", Q, ":", "[", "7", ",", Q, "a", BS, Q, Q, "]", "\n", ",",
        Q, "b", Q, ":", "t", "r", "u", "e", "}">>,
      <<"[", "[", "]", ",", "{", "}", ",", "n", "u", "l", "l", ",", "-", "1", "]">>,
      <<"{", Q, "a", Q, ":", "}">>,
      <<"[", "1", ",", "]">>,
      <<"[", "[", "[", "{", Q, BS>>,
      <<Q, "x", ",", "y", Q, ",", "b", " ", "\t", ",", ",", "7", "\r", "\n", "c", "\n">>,
      <<" ", "\n", Q, "a", BS, BS, BS, Q, "b", Q, "c">>,
      [k \in 1..(LaneWidth + 3) |-> IF k % 5 = 0 THEN "\n" ELSE " "] \o <<"-", "4", "2", "x">>,
      <<"+", "9", "2", "2", "3", "3", "7", "2", "0", "3", "6", "8", "5", "4", "7",
        "7", "5", "8", "0", "8">>,
      INT64_MIN_TEXT,
      <<"7">> \o DigitTail }

Steppable ==
    {"fp_skip_ws", "fp_parse_int64", "fp_parse_quoted_string",
     "fp_parse_csv_line", "fp_skip_json_value"}

InitSteps ==
    /\ mem \in StepBuffers
    /\ sample = NoSample
    /\ simd \in BOOLEAN
    /\ \E len \in 0..Len(mem) : p = fp_init(len)
    /\ before = p
    /\ InitOutputs

StepAny ==
    \/ SkipWsStep
    \/ ParseInt64Step
    \/ ParseDoubleStep
    \/ ParseQuotedStringStep
    \/ ParseCsvFieldStep
    \/ ParseCsvLineStep
    \/ SkipJsonValueStep
    \/ SkipJsonObjectStep
    \/ SkipJsonArrayStep

NextSteps == (\E fn \in Steppable : Begin(fn)) \/ StepAny

SpecSteps == InitSteps /\ [][NextSteps]_vars

SpecStepsFair == SpecSteps /\ WF_vars(StepAny)

----------------------------------------------------------------------------
(* SpecCsvAny: fp_init_cstr on any text of up to MaxCsvLen bytes of        *)
(* CsvBytes, well-formed or not, or on one of some longer texts, and then  *)
(* the README's loop.                                                      *)
(* SpecCsvAnyFair: the loop takes its turns while the scanner is not at    *)
(* end.                                                                    *)

MaxCsvLen == 4

CsvBytes == {",", Q, " ", "\n", "a", BS}

CsvAnyTexts ==
    UNION {[1..n -> CsvBytes] : n \in 0..MaxCsvLen}
    \cup { RowText(LongRow),
           RowText(LongRow) \o <<"\r", "\n", ",", ",", Q>>,
           <<",", "\r", "\r", "\n", "\t", ",", Q, "a", BS>>,
           <<" ", "\t", "\r", "\n", " ", " ">> }

\* Before the caller has a text: the scanner over the empty string.
InitCsvAny ==
    /\ mem = <<>>
    /\ sample = NoSample
    /\ simd \in BOOLEAN
    /\ p = fp_init(0)
    /\ before = p
    /\ InitOutputs

NextCsvAny == (\E text \in CsvAnyTexts : InitCstr(text)) \/ ReadRowsTurn

SpecCsvAny == InitCsvAny /\ [][NextCsvAny]_vars

\* Weak fairness of the loop's turn, WF_vars(ReadRowsTurn), with its
\* ENABLED written out: a turn changes rows, so it is enabled exactly when
\* the scanner is not at end.
SpecCsvAnyFair ==
    SpecCsvAny /\ ([]<>fp_at_end(p) \/ []<><<ReadRowsTurn>>_vars)

----------------------------------------------------------------------------
(* SpecPos: fp_advance, fp_skip_ws, fp_match_char, fp_parse_int64,         *)
(* fp_parse_quoted_string, fp_parse_csv_line and fp_skip_json_value in any *)
(* order on a fresh scanner over text of several lines.                    *)

PosBuffers ==
    { <<" ", "\n", "\r", "\n", "\t", "-", "4", "2", "\n", "x">>,
      <<Q, "a", "\n", BS, "\n", Q, ",", "b", "\r", "\n", "c", ",", "\n", "d">>,
      <<"[", "\n", "1", ",", "\n", "{", Q, "k", "\n", Q, ":", "t", "r", "u", "e",
        "}", "\n", "]", "\n">>,
      <<"\n", "\n", "7", "e", "1", "\n">>,
      [k \in 1..(LaneWidth + 2) |-> IF k % 3 = 0 THEN "\n" ELSE " "] \o <<"x", "\n">> }

PosArgBytes == {"\n", Q, ",", "[", NUL}

InitPos == InitOver(PosBuffers)

NextPos ==
    \/ Advance
    \/ SkipWs
    \/ \E c \in PosArgBytes : MatchChar(c)
    \/ ParseInt64
    \/ ParseQuotedString
    \/ ParseCsvLine
    \/ SkipJsonValue

SpecPos == InitPos /\ [][NextPos]_vars

----------------------------------------------------------------------------
(* SpecTimer: timer_init, timer_start and timer_stop in any order on one   *)
(* timer, in a Windows or a POSIX build, while the clock goes through      *)
(* Instants.                                                               *)

InitTimerSpec ==
    /\ InitScannerUnused
    /\ InitTimer
    /\ clock \in {[win32 |-> w, now |-> i] : w \in BOOLEAN, i \in 1..Len(Instants)}

NextTimer == Tick \/ TimerInit \/ TimerStart \/ TimerStop

SpecTimer == InitTimerSpec /\ [][NextTimer]_vars

----------------------------------------------------------------------------
(* Claims checked under Spec *)

\* C1: after any sequence of scanner operations on a scanner made by
\* fp_init(buffer, len), start <= current <= end; fp_parse_double too never
\* moves current past end, also when len is shorter than the numeral that
\* goes on in memory after end.
C1_CursorWithinBounds == p.start <= p.current /\ p.current <= p.end

FailingParsers ==
    {"fp_parse_int64", "fp_parse_double", "fp_parse_quoted_string",
     "fp_skip_json_value"}

\* C2: whenever fp_parse_int64, fp_parse_double, fp_parse_quoted_string or
\* fp_skip_json_value returns false on a scanner that had no error, the
\* error code is not FP_OK afterwards.
C2_FailureSetsError ==
    (op \in FailingParsers /\ ~aborted /\ ~ret /\ ~fp_has_error(before))
        => fp_has_error(p)

\* C5: once the error code is not FP_OK no later operation makes it FP_OK
\* again, and an operation that succeeds leaves error code and message as
\* they were: the slot changes only when a later failure overwrites it.
C5_StickyError ==
    fp_has_error(before) =>
        /\ fp_has_error(p)
        /\ ret => (p.error_code = before.error_code /\ p.error_msg = before.error_msg)

\* C5's case: with an error pending, an operation succeeded and consumed input.
C5_Witness ==
    /\ fp_has_error(before)
    /\ ret
    /\ op \in {"fp_parse_quoted_string", "fp_parse_double", "fp_skip_json_value"}
    /\ p.current > before.current

\* C16: the scanner keeps the line and column of a failure with the error
\* code and message.  fp_parser_t holds one line and one column, so with an
\* error pending an operation that succeeds, and so leaves code and message
\* alone, must leave line and column alone too.
C16_ErrorPositionKept ==
    (fp_has_error(before) /\ ret /\ ~aborted /\ p.error_code = before.error_code)
        => (p.line = before.line /\ p.column = before.column)

ScannerOperations ==
    {"fp_advance", "fp_skip_ws", "fp_match_char", "fp_match_str",
     "fp_parse_int64", "fp_parse_double", "fp_parse_quoted_string",
     "fp_parse_csv_line", "fp_skip_json_value"}

\* C17: fp_advance, fp_skip_ws, fp_match_char, fp_match_str, fp_parse_int64,
\* fp_parse_double, fp_parse_quoted_string, fp_parse_csv_line and
\* fp_skip_json_value never move current backward, whether they succeed or
\* fail.
C17_CursorMonotonic ==
    op \in ScannerOperations => p.current >= before.current

\* A call failed after moving current forward.
C17_Witness ==
    /\ op \in {"fp_parse_quoted_string", "fp_skip_json_value", "fp_parse_int64"}
    /\ ~ret
    /\ before.current > before.start
    /\ p.current > before.current

\* C19: when fp_match_char returns false, current, line, column and the
\* error slot are as before the call.
C19_MatchCharFailureLeavesScanner ==
    (op = "fp_match_char" /\ ~ret) => p = before

\* fp_match_char met another byte than expected, in mid-input and with an
\* error pending.
C19_Witness ==
    /\ op = "fp_match_char"
    /\ ~ret
    /\ fp_has_error(before)
    /\ before.current > before.start
    /\ before.current < before.end
    /\ arg # <<MemAt(before.current)>>

\* C20 as claimed: every view the engine produces (FP_VIEW_EMPTY, a chain's
\* result, the view of fp_parse_quoted_string, the fields of
\* fp_parse_csv_line, the result of fp_view_substr) has data null exactly
\* when its len is 0.
C20_NullIffEmpty ==
    /\ FP_VIEW_EMPTY.data = NULL <=> FP_VIEW_EMPTY.len = 0
    /\ chain.result.data = NULL <=> chain.result.len = 0
    /\ \A i \in DOMAIN fields : fields[i].data = NULL <=> fields[i].len = 0
    /\ op = "fp_parse_quoted_string" =>
           \A i \in DOMAIN str_out : str_out[i].data = NULL <=> str_out[i].len = 0
    /\ op = "fp_view_substr" =>
           \A i \in DOMAIN str_out : str_out[i].data = NULL <=> str_out[i].len = U64Zero

\* C20 as the code has it: a view with null data has len 0, and the views
\* of fp_parse_quoted_string and fp_parse_csv_line never have null data:
\* they point into [start, end], empty ones too.
C20_NullOnlyIfEmpty ==
    /\ FP_VIEW_EMPTY.data = NULL /\ FP_VIEW_EMPTY.len = 0
    /\ chain.result.data = NULL => chain.result.len = 0
    /\ \A i \in DOMAIN fields :
           /\ fields[i].data # NULL
           /\ p.start <= fields[i].data
           /\ fields[i].data + fields[i].len <= p.end
    /\ op = "fp_parse_quoted_string" =>
           \A i \in DOMAIN str_out :
               /\ str_out[i].data # NULL
               /\ p.start <= str_out[i].data
               /\ str_out[i].data + str_out[i].len <= p.end
    /\ op = "fp_view_substr" =>
           \A i \in DOMAIN str_out :
               str_out[i].data = NULL => str_out[i].len = U64Zero

\* fp_parse_csv_line read the row "",,x: an empty quoted field and an empty
\* bare field, each a view of len 0 that points into the buffer.
C20_Witness ==
    /\ op = "fp_parse_csv_line"
    /\ count = 3
    /\ fields[1] = fp_view_t(before.current + 1, 0)
    /\ fields[2] = fp_view_t(before.current + 3, 0)
    /\ fields[3].len = 1

\* C25: whenever fp_match_char(expected) returns true, for every byte
\* value of expected (NUL included) and every scanner state (at end
\* included), exactly one byte equal to expected has been consumed: current
\* has advanced by 1 and that byte lies before end.
C25_MatchConsumesOneByte ==
    (op = "fp_match_char" /\ ret) =>
        /\ p.current = before.current + 1
        /\ before.current < before.end
        /\ MemAt(before.current) = arg[1]

\* C25 for every expected byte but NUL.
MatchConsumesOneByteUnlessNul ==
    (op = "fp_match_char" /\ arg # <<NUL>>) => C25_MatchConsumesOneByte

----------------------------------------------------------------------------
(* Claims checked under SpecChain *)

ChainSteps == {"fp_then_skip_ws", "fp_then_expect_char", "fp_then_parse_string"}

\* C6: once a chain's success is false, every further step returns the chain
\* with success still false and result unchanged and leaves the scanner's
\* current, line, column and error slot unchanged; and a failing
\* fp_then_parse_string leaves result as the last successful step left it.
C6_ChainShortCircuit ==
    /\ (op \in ChainSteps /\ ~chain_before.success) =>
           (chain = chain_before /\ p = before)
    /\ (op = "fp_then_parse_string" /\ chain_before.success /\ ~chain.success) =>
           chain.result = chain_before.result

\* C6's case: a step on a failed chain, at a place where the step would have
\* consumed input had the chain not failed; the chain carries a parsed result.
C6_Witness ==
    /\ op \in ChainSteps
    /\ ~chain_before.success
    /\ chain_before.result.len > 0
    /\ \/ op = "fp_then_skip_ws" /\ fp_skip_ws(before).current > before.current
       \/ op = "fp_then_parse_string" /\ fp_parse_quoted_string(before).ok

----------------------------------------------------------------------------
(* Claims checked under SpecWs *)

\* Where fp_skip_ws leaves the scanner q when fp_skip_whitespace returns pos.
SkipWsVia(q, pos) == TrackTo(q, pos)

\* C7: the 16-byte-lane path and the scalar loop return the same position
\* from every start position of every buffer, so fp_skip_ws ends with the
\* same current, line and column whichever path ran; and neither path reads
\* a byte at or beyond end.
C7_SimdScalarEquivalent ==
    op = "fp_skip_ws" =>
        LET lanes == fp_skip_whitespace_simd(before.current, before.end)
            scalar == fp_skip_whitespace_scalar(before.current, before.end)
        IN  /\ lanes.pos = scalar.pos
            /\ p = SkipWsVia(before, lanes.pos)
            /\ p = SkipWsVia(before, scalar.pos)
            /\ \A i \in lanes.reads \cup scalar.reads :
                   before.start <= i /\ i < before.end

\* C7's case: the build with lanes skipped a whole lane and then stopped
\* some bytes further on, before end, with memory going on after end.
C7_Witness ==
    /\ op = "fp_skip_ws"
    /\ simd
    /\ before.current > 0
    /\ p.current >= before.current + LaneWidth + 3
    /\ p.current < p.end
    /\ p.end < Len(mem)

----------------------------------------------------------------------------
(* Claims checked under SpecInt *)

\* value * 10 + digit > max_val, over the integers.
ExceedsMax(value, max_val, digit) ==
    LET wide == U64MulAddWide(value, 10, digit)
    IN  wide.carry > 0 \/ U64Gt(wide.low, max_val)

\* C4: parsing the decimal text of any int64_t n (with '-', or an optional
\* '+') returns true and writes exactly n, INT64_MIN and INT64_MAX included;
\* the texts of 2^63 and -(2^63 + 1) fail with FP_ERROR_OVERFLOW; and the
\* check 'value > (max_val - digit) / 10' decides as 'value * 10 + digit >
\* max_val' does, for every accumulator value and digit.
C4_Int64RoundTrip ==
    (op = "fp_parse_int64" /\ before = fp_init(Len(mem))) =>
        /\ sample.kind = "int64" => (ret /\ int_out = sample.n)
        /\ sample.kind = "beyond" => (~ret /\ p.error_code = FP_ERROR_OVERFLOW)
        /\ \A digit \in 0..9 :
           \A max_val \in {U64_INT64_MAX, U64_INT64_MAX_PLUS_1} :
               OverflowCheck(sample.n, max_val, digit)
                   <=> ExceedsMax(sample.n, max_val, digit)

\* The first offset in i..end that is end or holds no whitespace.
FirstNonWs(i, end) ==
    Min({k \in i..end : k = end \/ ~IsWs(MemAt(k))})

\* After whitespace and one optional sign, no digit comes before q's end.
NoDigitAhead(q) ==
    LET signed(o) == IF o < q.end /\ MemAt(o) \in {"+", "-"} THEN o + 1 ELSE o
        none(s) == s >= q.end \/ ~(MemAt(s) \in Digits)
    IN  none(signed(FirstNonWs(q.current, q.end)))

\* C15 as claimed: when no digit follows the whitespace and the optional
\* sign (empty and whitespace-only input included), fp_parse_int64 returns
\* false with FP_ERROR_INVALID_NUMBER.
C15_NoDigitInvalidNumber ==
    (op = "fp_parse_int64" /\ NoDigitAhead(before))
        => (~ret /\ p.error_code = FP_ERROR_INVALID_NUMBER)

\* C15 as the code has it: it returns false and writes no result, with
\* FP_ERROR_EOF when nothing but whitespace was left and with
\* FP_ERROR_INVALID_NUMBER otherwise.
C15_NoDigitFails ==
    (op = "fp_parse_int64" /\ NoDigitAhead(before))
        => /\ ~ret
           /\ int_out = <<>>
           /\ p.error_code =
                  IF FirstNonWs(before.current, before.end) = before.end
                  THEN FP_ERROR_EOF ELSE FP_ERROR_INVALID_NUMBER

\* The call met nothing but whitespace, and skipped it.
C15_Witness ==
    /\ op = "fp_parse_int64"
    /\ before.current < before.end
    /\ p.current = p.end
    /\ FirstNonWs(before.current, before.end) = before.end
    /\ ~ret
    /\ p.error_code = FP_ERROR_EOF

\* The offset of the first digit of the run at i whose accumulation onto
\* value goes beyond max_val (value * 10 + digit as a full product); end
\* when no digit of the run does.
RECURSIVE FirstDigitBeyond(_, _, _, _)
FirstDigitBeyond(i, end, value, max_val) ==
    IF i >= end \/ ~(MemAt(i) \in Digits) THEN end
    ELSE IF ExceedsMax(value, max_val, DigitVal(MemAt(i))) THEN i
    ELSE FirstDigitBeyond(i + 1, end, U64MulAdd(value, 10, DigitVal(MemAt(i))), max_val)

\* The same for the number that starts after the whitespace at q's cursor,
\* with the bound for its sign.
OffendingDigit(q) ==
    LET s == FirstNonWs(q.current, q.end)
        signed == s < q.end /\ MemAt(s) \in {"+", "-"}
    IN  FirstDigitBeyond(IF signed THEN s + 1 ELSE s, q.end, U64Zero,
                         IF s < q.end /\ MemAt(s) = "-" THEN U64_INT64_MAX_PLUS_1
                                                       ELSE U64_INT64_MAX)

\* C22: when fp_parse_int64 fails with FP_ERROR_OVERFLOW, current is at the
\* first digit whose accumulation would exceed the bound for the sign (the
\* sign and the earlier digits consumed, that digit and what follows not),
\* and the result has not been written.
C22_OverflowAtOffendingDigit ==
    (op = "fp_parse_int64" /\ ~ret /\ p.error_code = FP_ERROR_OVERFLOW) =>
        /\ p.current = OffendingDigit(before)
        /\ p.current < p.end
        /\ MemAt(p.current) \in Digits
        /\ int_out = <<>>

\* The call failed with FP_ERROR_OVERFLOW at a digit that has digits before
\* and after it.
C22_Witness ==
    /\ op = "fp_parse_int64"
    /\ ~ret
    /\ p.error_code = FP_ERROR_OVERFLOW
    /\ before.error_code = FP_OK
    /\ p.current > before.current + 2
    /\ p.current + 1 < p.end
    /\ MemAt(p.current + 1) \in Digits
    /\ int_out = <<>>

----------------------------------------------------------------------------
(* Claims checked under SpecCsv *)

\* The reference split, a scan of the text that counts the newlines outside
\* quoted fields (a backslash inside quotes escapes the next byte): one
\* step on [i, in_quotes, n, open], where n rows are closed and open says
\* that bytes of a further row have been seen.
RefStep(text, st) ==
    IF st.in_quotes
    THEN IF text[st.i] = BS
         THEN [st EXCEPT !.i = @ + 2, !.open = TRUE]
         ELSE [st EXCEPT !.i = @ + 1, !.in_quotes = text[st.i] # Q, !.open = TRUE]
    ELSE IF text[st.i] = "\n"
         THEN [st EXCEPT !.i = @ + 1, !.n = @ + 1, !.open = FALSE]
         ELSE [st EXCEPT !.i = @ + 1, !.in_quotes = text[st.i] = Q, !.open = TRUE]

RECURSIVE RefRows(_, _)
RefRows(text, st) ==
    IF st.i > Len(text) THEN (IF st.open THEN st.n + 1 ELSE st.n)
    ELSE RefRows(text, RefStep(text, st))

RefRowCount(text) ==
    RefRows(text, [i |-> 1, in_quotes |-> FALSE, n |-> 0, open |-> FALSE])

\* C3: reading rows with fp_parse_csv_line until fp_at_end gives as many
\* rows as the reference split of the input on the newlines outside quoted
\* fields, blank lines and rows ending in ',' included.
C3_RowCountMatchesSplit ==
    (sample.kind = "csv" /\ fp_at_end(p)) => rows = RefRowCount(mem)

\* The offset of the first byte of row i (of the end of input after the last).
RECURSIVE RowStart(_, _)
RowStart(rs, i) ==
    IF i = 1 THEN 0 ELSE RowStart(rs, i - 1) + Len(RowText(rs[i - 1])) + 1

\* Every row has a field and every field has a byte.
NonEmptyFields(rs) ==
    \A i \in 1..Len(rs) :
        /\ Len(rs[i]) >= 1
        /\ \A k \in 1..Len(rs[i]) : Len(rs[i][k].bytes) >= 1

\* The last call read row i: its count, its fields' bytes, and current at
\* the first byte of row i + 1.
ReadRow(rs, i) ==
    /\ i <= Len(rs)
    /\ count = Len(rs[i])
    /\ \A k \in 1..Len(rs[i]) :
           k \in DOMAIN fields /\ ViewBytes(fields[k]) = rs[i][k].bytes
    /\ p.current = RowStart(rs, i + 1)

\* C10 as claimed: on rows of non-empty bare or quoted fields, each ended
\* by a newline, the i-th call of fp_parse_csv_line returns the number of
\* fields of row i, fields[k] spans the k-th field's bytes (without the
\* quotes), and current is left at the first byte of row i + 1.
C10_RowFieldsExact ==
    (/\ sample.kind = "csv"
     /\ op = "fp_parse_csv_line"
     /\ ~fp_at_end(before)
     /\ NonEmptyFields(sample.rows))
        => ReadRow(sample.rows, rows)

\* C10 as the code has it: the same, for rows of at most FP_CSV_MAX_FIELDS
\* fields.
C10_RowFieldsExactWithinCapacity ==
    (/\ sample.kind = "csv"
     /\ op = "fp_parse_csv_line"
     /\ ~fp_at_end(before)
     /\ NonEmptyFields(sample.rows)
     /\ \A i \in 1..Len(sample.rows) : Len(sample.rows[i]) <= FP_CSV_MAX_FIELDS)
        => ReadRow(sample.rows, rows)

\* The third row of three has been read, a row of a quoted field holding a
\* newline, a bare field and a quoted field holding an escaped quote.
C10_Witness ==
    /\ sample.kind = "csv"
    /\ op = "fp_parse_csv_line"
    /\ NonEmptyFields(sample.rows)
    /\ \A i \in 1..Len(sample.rows) : Len(sample.rows[i]) <= FP_CSV_MAX_FIELDS
    /\ rows = 3
    /\ count = 3
    /\ fields[1].len = 3
    /\ ViewBytes(fields[3]) = <<"a", BS, Q, "b">>
    /\ fp_at_end(p)

\* The line a call starts on, scanned one byte at a time on [mode, t]:
\* mode says whether the scan is at the start of a field, in a bare field
\* or after a closed quote ("bare"), inside quotes, after a backslash
\* inside quotes ("esc"), or "done" at the first '\n' or '\r' outside
\* quotes, whose offset is t.
LineStep(st, i) ==
    LET c == MemAt(i)
    IN  CASE st.mode = "done" -> st
          [] st.mode = "esc" -> [st EXCEPT !.mode = "quoted"]
          [] st.mode = "quoted" ->
                 [st EXCEPT !.mode = CASE c = BS -> "esc" [] c = Q -> "bare"
                                       [] OTHER -> "quoted"]
          [] OTHER ->
                 CASE c = "\n" \/ c = "\r" -> [mode |-> "done", t |-> i]
                   [] c = "," -> [st EXCEPT !.mode = "start"]
                   [] c = Q /\ st.mode = "start" -> [st EXCEPT !.mode = "quoted"]
                   [] (c = " " \/ c = "\t") /\ st.mode = "start" -> st
                   [] OTHER -> [st EXCEPT !.mode = "bare"]

\* The scan over the bytes at a .. b - 1, by halves.
RECURSIVE LineScan(_, _, _)
LineScan(st, a, b) ==
    LET rest(left, mid) == IF left.mode = "done" THEN left ELSE LineScan(left, mid, b)
    IN  IF a >= b THEN st
        ELSE IF b = a + 1 THEN LineStep(st, a)
        ELSE rest(LineScan(st, a, (a + b) \div 2), (a + b) \div 2)

\* The offset of the first line terminator outside quotes at or after the
\* cursor of q, or end.
LineEnd(q) == LineScan([mode |-> "start", t |-> q.end], q.current, q.end).t

\* The offset just after the line terminator at t ('\r\n' is one), t at end.
AfterLineEnd(t, end) ==
    IF t >= end THEN end
    ELSE IF MemAt(t) = "\r" /\ t + 1 < end /\ MemAt(t + 1) = "\n" THEN t + 2
    ELSE t + 1

\* C21: a call of fp_parse_csv_line stays within one line: every field it
\* returns lies before the first line terminator outside quotes that
\* follows the cursor at the start of the call, and current is left no
\* further than just after that terminator; also when ',' is directly
\* followed by the terminator and when the call starts on a blank line.
C21_StaysWithinLine ==
    (sample.kind = "csv" /\ op = "fp_parse_csv_line") =>
        /\ \A k \in 1..count : fields[k].data + fields[k].len <= LineEnd(before)
        /\ p.current <= AfterLineEnd(LineEnd(before), before.end)

\* C21 on the calls that start at a byte of a field and end the row with a
\* field of at least one byte or at the capacity of the array.
StaysWithinLineOfFields ==
    (/\ sample.kind = "csv"
     /\ op = "fp_parse_csv_line"
     /\ LineEnd(before) > before.current
     /\ MemAt(LineEnd(before) - 1) # ",") => C21_StaysWithinLine

----------------------------------------------------------------------------
(* Claims checked under SpecJson *)

\* The last call was fp_skip_json_value on the fresh scanner over the text.
SkippedWholeText ==
    op = "fp_skip_json_value" /\ before = fp_init(Len(sample.text))

\* C8: on well-formed JSON text (objects, arrays, strings, integers, true,
\* false, null, whitespace between tokens, none trailing) fp_skip_json_value
\* returns true and leaves current == end.
C8_WellFormedJsonConsumed ==
    (sample.kind = "json" /\ SkippedWholeText) => (ret /\ p.current = p.end)

\* C9: on an object whose ':' is followed by '}' or ',' and on an array with
\* a comma before ']' fp_skip_json_value returns false and leaves an error
\* code other than FP_OK.
C9_MissingValueRejected ==
    (sample.kind = "missing" /\ SkippedWholeText)
        => (~ret /\ p.error_code # FP_OK)

\* C11: fp_parse_csv_line returns a count of at most FP_CSV_MAX_FIELDS and
\* writes fields[0 .. count-1] and no other slot; called at the start of a
\* row of more than FP_CSV_MAX_FIELDS fields it returns FP_CSV_MAX_FIELDS.
C11_FieldCountCapped ==
    op = "fp_parse_csv_line" =>
        /\ count <= FP_CSV_MAX_FIELDS
        /\ DOMAIN fields = 1..count
        /\ sample.kind = "csv" =>
               \A i \in 1..Len(sample.rows) :
                   (/\ Len(sample.rows[i]) > FP_CSV_MAX_FIELDS
                    /\ before.current = RowStart(sample.rows, i))
                       => count = FP_CSV_MAX_FIELDS

\* A call at the start of the long row, after another row, filled the array.
C11_Witness ==
    /\ op = "fp_parse_csv_line"
    /\ sample.kind = "csv"
    /\ before.current > 0
    /\ \E i \in 1..Len(sample.rows) :
           /\ Len(sample.rows[i]) > FP_CSV_MAX_FIELDS
           /\ before.current = RowStart(sample.rows, i)
    /\ count = FP_CSV_MAX_FIELDS
    /\ Len(fields) = FP_CSV_MAX_FIELDS

----------------------------------------------------------------------------
(* Claims checked under SpecStr *)

\* How many backslashes stand directly before offset j, after offset o.
BackslashesBefore(j, o) ==
    Min({n \in 0..(j - o - 1) : n = j - o - 1 \/ MemAt(j - n - 1) # BS})

\* The quotes after the opening quote at o that no unpaired backslash
\* precedes.
ClosingQuotes(o, end) ==
    {j \in (o + 1)..(end - 1) :
        MemAt(j) = Q /\ BackslashesBefore(j, o) % 2 = 0}

\* C12: fp_parse_quoted_string succeeds exactly when, after whitespace, a
\* quote opens and a quote not escaped by an unpaired backslash follows
\* before end; the view then spans the bytes between the two, inside
\* [start, end), and current is just past the closing quote.  Otherwise it
\* returns false with FP_ERROR_UNTERMINATED_STRING.
C12_QuotedStringView ==
    op = "fp_parse_quoted_string" =>
        LET settle(o, closers) ==
                IF closers # {}
                THEN /\ ret
                     /\ str_out = <<fp_view_t(o + 1, Min(closers) - o - 1)>>
                     /\ p.current = Min(closers) + 1
                     /\ p.start <= o + 1
                     /\ Min(closers) < p.end
                ELSE ~ret /\ p.error_code = FP_ERROR_UNTERMINATED_STRING
            opened(o) ==
                settle(o, IF o < before.end /\ MemAt(o) = Q
                          THEN ClosingQuotes(o, before.end) ELSE {})
        IN  opened(FirstNonWs(before.current, before.end))

\* A string holding an escaped quote was read, with input left after it.
C12_Witness ==
    /\ op = "fp_parse_quoted_string"
    /\ ret
    /\ str_out # <<>>
    /\ ViewBytes(str_out[1]) = <<BS, Q>>
    /\ p.current < p.end

----------------------------------------------------------------------------
(* Claims checked under SpecView *)

\* C13: fp_view_substr(view, offset, length), for every offset and length
\* (those whose sum wraps around included): the empty view if offset >=
\* view.len, else a view of len <= view.len - offset that lies inside view.
C13_SubstrInsideView ==
    op = "fp_view_substr" =>
        LET inside(view, start, r) ==
                IF U64Ge(start, U64(view.len))
                THEN r = [data |-> NULL, len |-> U64Zero]
                ELSE /\ U64Ge(U64Sub(U64(view.len), start), r.len)
                     /\ r.data >= view.data
                     /\ r.data + U64Small(r.len) <= view.data + view.len
        IN  inside(arg[1], arg[2], str_out[1])

\* view is a proper prefix of other, byte for byte.
ProperPrefix(view, other) ==
    /\ view.len < other.len
    /\ ViewBytes(view) = SubSeq(ViewBytes(other), 1, view.len)

\* C14: fp_view_equals(a, a) is true; fp_view_compare(a, b) is 0 exactly
\* when fp_view_equals(a, b); and of two views one a proper prefix of the
\* other fp_view_compare puts the shorter first.
C14_CompareAgreesWithEquals ==
    /\ op = "fp_view_equals" =>
           /\ arg[1] = arg[2] => ret
           /\ ret <=> ViewBytes(arg[1]) = ViewBytes(arg[2])
    /\ op = "fp_view_compare" =>
           /\ fp_view_equals(arg[1], arg[1])
           /\ int_out[1] = 0 <=> fp_view_equals(arg[1], arg[2])
           /\ ProperPrefix(arg[1], arg[2]) => int_out[1] < 0
           /\ ProperPrefix(arg[2], arg[1]) => int_out[1] > 0

\* Two views at different places, the first a proper prefix of the second
\* and neither empty, were compared.
C14_Witness ==
    /\ op = "fp_view_compare"
    /\ arg[1].data # arg[2].data
    /\ arg[1].len > 0
    /\ ProperPrefix(arg[1], arg[2])
    /\ int_out[1] < 0

----------------------------------------------------------------------------
(* Claims checked under SpecSteps and SpecStepsFair *)

\* What the function run at once leaves: the scanner and, for
\* fp_parse_csv_line, the count.
AtOnce(fn, q) ==
    CASE fn = "fp_skip_ws" -> [p |-> fp_skip_ws(q), count |-> 0]
      [] fn = "fp_parse_int64" -> [p |-> fp_parse_int64(q).p, count |-> 0]
      [] fn = "fp_parse_quoted_string" -> [p |-> fp_parse_quoted_string(q).p, count |-> 0]
      [] fn = "fp_parse_csv_line" ->
             [p |-> fp_parse_csv_line(q, <<>>).p, count |-> fp_parse_csv_line(q, <<>>).count]
      [] fn = "fp_skip_json_value" -> [p |-> fp_skip_json_value(q).p, count |-> 0]

\* The call run step by step has returned what the function run at once gives.
StepsAgree ==
    (op \in Steppable /\ stack = <<>>)
        => (p = AtOnce(op, before).p /\ count = AtOnce(op, before).count)

\* The steps a call may take per byte of remaining input, and on top of them.
StepsPerByte == 20

StepsFixed == 6

RemainingAtCall == before.end - before.current

\* C18: a call of fp_skip_ws, fp_parse_int64, fp_parse_quoted_string,
\* fp_parse_csv_line or fp_skip_json_value (fp_skip_json_object and
\* fp_skip_json_array within it) takes a number of steps bounded by the
\* length of the input that remained when it was called.
C18_StepsBoundedByInput ==
    (op \in Steppable) => steps <= StepsPerByte * RemainingAtCall + StepsFixed

\* strtod has gone over bytes past end.
StrtodPastEnd ==
    \/ p.current > p.end
    \/ \E i \in 1..Len(stack) :
           stack[i].fn = "fp_parse_double" /\ p.current + stack[i].a > p.end

\* The bound of C18 holds as long as strtod stays within the input.
StepsBoundedWithinInput == StrtodPastEnd \/ C18_StepsBoundedByInput

\* Under SpecStepsFair, a call in progress returns, unless the build traps
\* at the negation in fp_parse_int64.
CallsReturn == (stack # <<>>) ~> (stack = <<>> \/ aborted)

----------------------------------------------------------------------------
(* Claims checked under SpecPos *)

\* The offsets of the '\n' bytes in buffer[start .. current).
NewlinesBefore(q) == {i \in q.start..(q.current - 1) : MemAt(i) = "\n"}

\* The offset after the last '\n' in buffer[start .. current), or start.
LineStart(q) ==
    IF NewlinesBefore(q) = {} THEN q.start
    ELSE 1 + CHOOSE i \in NewlinesBefore(q) : \A j \in NewlinesBefore(q) : j <= i

\* q after n calls of fp_advance.
RECURSIVE AdvanceTimes(_, _)
AdvanceTimes(q, n) == IF n = 0 THEN q ELSE AdvanceTimes(fp_advance(q), n - 1)

\* C23: after any sequence of fp_advance, fp_skip_ws, fp_match_char,
\* fp_parse_int64, fp_parse_quoted_string, fp_parse_csv_line and
\* fp_skip_json_value calls on a fresh scanner, line is 1 plus the number of
\* '\n' bytes in buffer[start .. current) and column is 1 plus the number
\* of bytes consumed since the last of them (since start if there is none);
\* so both are at least 1, and fp_skip_ws leaves the line and column of one
\* fp_advance per skipped byte.
C23_PositionTracksCursor ==
    /\ p.line = 1 + Cardinality(NewlinesBefore(p))
    /\ p.column = 1 + (p.current - LineStart(p))
    /\ p.line >= 1
    /\ p.column >= 1
    /\ op = "fp_skip_ws" => p = AdvanceTimes(before, p.current - before.current)

\* fp_skip_ws went over whitespace of more than one line, after other calls.
C23_Witness ==
    /\ op = "fp_skip_ws"
    /\ before.current > 0
    /\ p.line >= before.line + 2
    /\ p.current >= before.current + 4
    /\ p.column > 1

----------------------------------------------------------------------------
(* Claims checked under SpecCsvAnyFair *)

\* A call of fp_parse_csv_line on a scanner not at end moved current on.
CsvLineMovesOn ==
    (op = "fp_parse_csv_line" /\ ~fp_at_end(before)) => p.current > before.current

\* C24: on a scanner that is not at end, one call of fp_parse_csv_line
\* advances current by at least one byte, whatever the input (leading ',',
\* unterminated quote, whitespace only, the capacity of 64 fields reached),
\* so the loop 'while (!fp_at_end(&parser)) fp_parse_csv_line(&parser,
\* fields)' reaches the end of input.
C24_CsvLoopReachesEnd ==
    []CsvLineMovesOn /\ (~fp_at_end(p) ~> fp_at_end(p))

\* A call on a leading ',' returned an empty first field and moved on, with
\* input left for a further call.
C24_Witness ==
    /\ op = "fp_parse_csv_line"
    /\ MemAt(before.current) = ","
    /\ count >= 1
    /\ fields[1].len = 0
    /\ p.current > before.current
    /\ ~fp_at_end(p)

----------------------------------------------------------------------------
(* Claims checked under SpecTimer *)

\* A timer that is not running has end_time >= start_time.
StoppedTimerOrdered ==
    timer.is_running = 0 => U64Ge(timer.end_time, timer.start_time)

\* timer_stop on a timer that was not running left it as it was.
IdleStopChangesNothing ==
    (timer_op = "timer_stop" /\ timer_before.is_running = 0) =>
        /\ timer.start_time = timer_before.start_time
        /\ timer.end_time = timer_before.end_time
        /\ timer_elapsed_ns(timer, clock) = timer_elapsed_ns(timer_before, clock)

\* C26: for any sequence of timer_init, timer_start and timer_stop calls on
\* one timer under a non-decreasing clock, end_time >= start_time whenever
\* is_running == 0, so timer_elapsed_ns does not wrap around; and
\* timer_stop on a timer that is not running leaves start_time, end_time
\* and the reported elapsed time unchanged.
C26_TimerStateMachine == StoppedTimerOrdered /\ IdleStopChangesNothing

\* C26 in a POSIX build.
TimerStateMachinePosix == clock.win32 \/ C26_TimerStateMachine

=============================================================================
